---- MODULE Spec2Model ----
(***************************************************************************)
(* A model of the popsicle CI engine: the pipeline configuration loader    *)
(* (popsicle/pipelines/config_parser.py), the pipeline orchestrator        *)
(* (fmg/orchestrator/__init__.py), the record store                        *)
(* (popsicle/storage/sqlite.py) and the two handlers that create pipeline  *)
(* runs: the push webhook (popsicle/webhook/app.py) and the retry route    *)
(* (popsicle/webui/routes.py).                                             *)
(*                                                                         *)
(* Three specifications share the variables:                               *)
(*   SpecLoad    loads every bounded configuration document;               *)
(*   Spec        pushes, retries and concurrent pipeline runs on a store;  *)
(*   SpecEnsure  repeated _ensure_job_records calls on one pipeline.       *)
(***************************************************************************)
EXTENDS Integers, Sequences, FiniteSets, TLC

VARIABLES
    \* ---- configuration loading (load_pipeline_config) ----
    doc,            \* the decoded YAML document being loaded
    loadPc,         \* position inside load_pipeline_config
    dependencies,   \* the mapping built by _extract_workflow_details
    loaded,         \* the outcome: a PipelineConfig or a PipelineConfigError
    \* ---- the store and the running system ----
    pipelines,      \* table pipelines: sequence indexed by AUTOINCREMENT id
    jobs,           \* table jobs: sequence indexed by AUTOINCREMENT id
    runs,           \* submitted run_pipeline invocations, by pipeline id
    workspaces,     \* the pipeline workspace directories that exist
    statusLog,      \* per pipeline row, the statuses written to it, in order
    retryOf,        \* per pipeline row, the pipeline it retries, 0 for a push
    triggers,       \* the handler invocations and what each was given
    \* ---- repeated _ensure_job_records calls ----
    ensured,        \* the mapping the last call returned
    ensureCalls,    \* the number of calls made
    \* ---- one call of DockerRunner.run ----
    runner          \* the job, the engine, the locals of run and its result

loadVars == <<doc, loadPc, dependencies, loaded>>
sysVars  == <<pipelines, jobs, runs, workspaces, statusLog, retryOf, triggers>>
ensureVars == <<ensured, ensureCalls>>
vars     == <<doc, loadPc, dependencies, loaded,
              pipelines, jobs, runs, workspaces, statusLog, retryOf, triggers,
              ensured, ensureCalls, runner>>

(***************************************************************************)
(* Bounds                                                                  *)
(***************************************************************************)
MaxEntries == 2         \* entries in a workflow's jobs list
MaxPipelines == 2       \* pipeline rows the store may hold
MaxEnsure == 2          \* _ensure_job_records calls on one pipeline
MaxTriggers == 2        \* handler invocations whose inputs are recorded
MaxSteps == 2           \* entries in a job's steps list

\* The job names a document may use.  A name is declared only when the
\* document's jobs mapping holds it.
JobNames == {"build", "test", "lint"}

Range(s) == {s[i] : i \in 1..Len(s)}

SeqsUpTo(S, n) == UNION {[1..k -> S] : k \in 0..n}

IsInjective(s) == \A i, j \in 1..Len(s) : s[i] = s[j] => i = j

(***************************************************************************)
(* Documents.  jobs is the key order of the top-level jobs mapping (a      *)
(* Python dict keeps insertion order and has no duplicate key).            *)
(* has_workflow tells whether the document has a workflows block with a    *)
(* workflow in it; workflow is then that workflow's jobs list: entries     *)
(* naming a job with a requires list.  A requires list is held as the set  *)
(* of its elements: the loader reads it only through set(...)              *)
(* (config_parser.py:258).                                                 *)
(***************************************************************************)

WorkflowEntries == [job : JobNames, requires : SUBSET JobNames]

JobKeyOrders == {s \in SeqsUpTo(JobNames, Cardinality(JobNames)) : IsInjective(s)}

BoundedDocs == {d \in [jobs : JobKeyOrders, has_workflow : BOOLEAN,
                        workflow : SeqsUpTo(WorkflowEntries, MaxEntries)] :
                   ~d.has_workflow => d.workflow = <<>>}

\* Documents with one entry per job, beyond MaxEntries: a cycle through all
\* three jobs, a chain of three, and a job that waits for the two others.
DocCycle3 ==
    [jobs |-> <<"build", "test", "lint">>, has_workflow |-> TRUE,
     workflow |-> <<[job |-> "build", requires |-> {"lint"}],
                    [job |-> "test", requires |-> {"build"}],
                    [job |-> "lint", requires |-> {"test"}]>>]

DocChain3 ==
    [jobs |-> <<"lint", "test", "build">>, has_workflow |-> TRUE,
     workflow |-> <<[job |-> "lint", requires |-> {"test"}],
                    [job |-> "test", requires |-> {"build"}],
                    [job |-> "build", requires |-> {}]>>]

DocFanIn ==
    [jobs |-> <<"lint", "test", "build">>, has_workflow |-> TRUE,
     workflow |-> <<[job |-> "lint", requires |-> {"test", "build"}],
                    [job |-> "test", requires |-> {}],
                    [job |-> "build", requires |-> {}]>>]

Docs == BoundedDocs \cup {DocCycle3, DocChain3, DocFanIn}

NoDeps == [j \in {} |-> {}]

\* The two outcomes of a load.
ConfigError(kind, stuck) ==
    [ok |-> FALSE, error |-> kind, unresolved |-> stuck,
     job_order |-> <<>>, jobs |-> <<>>, dependencies |-> NoDeps]

PipelineConfig(jobKeys, order, deps) ==
    [ok |-> TRUE, error |-> "", unresolved |-> <<>>,
     job_order |-> order, jobs |-> jobKeys, dependencies |-> deps]

NotLoaded == [ok |-> FALSE, error |-> "not_loaded", unresolved |-> <<>>,
              job_order |-> <<>>, jobs |-> <<>>, dependencies |-> NoDeps]

(***************************************************************************)
(* _extract_workflow_details (config_parser.py:190-251).  Every declared   *)
(* job starts with no dependency; each workflow entry, in list order,      *)
(* must name a declared job and overwrites that job's requires.            *)
(***************************************************************************)
RECURSIVE ApplyEntries(_, _, _)
ApplyEntries(entries, i, deps) ==
    IF i > Len(entries) THEN [ok |-> TRUE, deps |-> deps]
    ELSE IF entries[i].job \notin DOMAIN deps
         THEN [ok |-> FALSE, deps |-> deps]
         ELSE ApplyEntries(entries, i + 1,
                           [deps EXCEPT ![entries[i].job] = entries[i].requires])

ExtractWorkflowDetails(d) ==
    LET initial == [j \in Range(d.jobs) |-> {}]
    IN  IF ~d.has_workflow
        THEN [ok |-> TRUE, error |-> "", deps |-> initial]
        ELSE IF d.workflow = <<>>
        THEN [ok |-> FALSE, error |-> "workflow_jobs_empty", deps |-> initial]
        ELSE LET r == ApplyEntries(d.workflow, 1, initial)
             IN  IF r.ok THEN [ok |-> TRUE, error |-> "", deps |-> r.deps]
                 ELSE [ok |-> FALSE, error |-> "unknown_job", deps |-> initial]

(***************************************************************************)
(* _topological_sort (config_parser.py:254-275).  remaining keeps the key  *)
(* order of the jobs mapping; each pass moves every job whose dependency   *)
(* set lies within resolved, in that order.                                *)
(***************************************************************************)
\* Faulty variants of the readiness test at config_parser.py:262: ready as
\* soon as one dependency is resolved; a job's own name not counted.
IsReady_AnyResolved(job, deps, resolved) ==
    deps[job] = {} \/ deps[job] \cap Range(resolved) # {}

IsReady_SelfIgnored(job, deps, resolved) ==
    (deps[job] \ {job}) \subseteq Range(resolved)

IsReady(job, deps, resolved) == deps[job] \subseteq Range(resolved)

\* Faulty variant of lines 262 and 271-273: a pass moves only the first
\* ready job.
ReadyJobs_FirstOnly(remaining, deps, resolved) ==
    LET ready == SelectSeq(remaining, LAMBDA j : IsReady(j, deps, resolved))
    IN  IF ready = <<>> THEN <<>> ELSE <<ready[1]>>

\* Faulty variant of line 262: the ready jobs of a pass in lexicographic
\* order of their names.
ReadyJobs_Sorted(remaining, deps, resolved) ==
    SelectSeq(<<"build", "lint", "test">>,
              LAMBDA j : j \in Range(remaining) /\ IsReady(j, deps, resolved))

ReadyJobs(remaining, deps, resolved) ==
    SelectSeq(remaining, LAMBDA j : IsReady(j, deps, resolved))

NotReadyJobs(remaining, deps, resolved) ==
    SelectSeq(remaining, LAMBDA j : ~IsReady(j, deps, resolved))

\* The error text: "job -> sorted(deps)" for every job left in remaining.
Unresolved(remaining, deps) ==
    [i \in 1..Len(remaining) |-> [job |-> remaining[i], deps |-> deps[remaining[i]]]]

RECURSIVE TopologicalLoop(_, _, _)
TopologicalLoop(remaining, deps, resolved) ==
    IF remaining = <<>> THEN [ok |-> TRUE, order |-> resolved, unresolved |-> <<>>]
    ELSE LET ready == ReadyJobs(remaining, deps, resolved)
         IN  IF ready = <<>>
             THEN [ok |-> FALSE, order |-> <<>>,
                   unresolved |-> Unresolved(remaining, deps)]
             ELSE TopologicalLoop(NotReadyJobs(remaining, deps, resolved),
                                  deps, resolved \o ready)

TopologicalSort(jobKeys, deps) == TopologicalLoop(jobKeys, deps, <<>>)

(***************************************************************************)
(* load_pipeline_config (config_parser.py:83-162), from the jobs section   *)
(* on.                                                                     *)
(***************************************************************************)
LoadPipelineConfig(d) ==
    IF d.jobs = <<>> THEN ConfigError("no_jobs", <<>>)
    ELSE LET w == ExtractWorkflowDetails(d)
         IN  IF ~w.ok THEN ConfigError(w.error, <<>>)
             ELSE LET t == TopologicalSort(d.jobs, w.deps)
                  IN  IF t.ok THEN PipelineConfig(d.jobs, t.order, w.deps)
                      ELSE ConfigError("circular_or_unsatisfied", t.unresolved)

(***************************************************************************)
(* The store (popsicle/storage/sqlite.py).  A timestamp is Null or Now:    *)
(* the model keeps whether a column has been written, not the clock value. *)
(***************************************************************************)
Null == "NULL"
Now  == "now"

PipelineStatuses == {"pending", "running", "success", "failure"}
JobStatuses      == {"pending", "running", "success", "failure", "skipped"}

\* create_pipeline (sqlite.py:198-217): the new row takes the next id.
CreatePipeline(ps, commit, workflowName, configPath) ==
    Append(ps, [commit_sha |-> commit, workflow_name |-> workflowName,
                config_path |-> configPath, status |-> "pending",
                start_time |-> Now, end_time |-> Null])

\* update_pipeline_status (sqlite.py:219-234): end_time = COALESCE(?, end_time).
PipelineEndTime(status, old) ==
    IF status \in {"success", "failure"} THEN Now ELSE old

UpdatePipelineStatus(ps, id, status) ==
    IF id \in DOMAIN ps
    THEN [ps EXCEPT ![id] = [@ EXCEPT !.status = status,
                                      !.end_time = PipelineEndTime(status, @)]]
    ELSE ps

\* The statuses written to each pipeline row: the INSERT at sqlite.py:210-216
\* and every UPDATE at sqlite.py:226-234 is a commit of its own, so each
\* value is visible to a reader of the store before the next is written.
LogCreate(log) == Append(log, <<"pending">>)

LogStatus(log, id, status) ==
    IF id \in DOMAIN log THEN [log EXCEPT ![id] = Append(@, status)] ELSE log

\* create_job (sqlite.py:352-367).
CreateJob(js, pipelineId, jobName) ==
    Append(js, [pipeline_id |-> pipelineId, job_name |-> jobName,
                status |-> "pending", start_time |-> Null,
                end_time |-> Null, log |-> Null])

\* Faulty variant of sqlite.py:381: every status but pending and running
\* gets an end time.
JobEndTime_SkippedToo(status, old) ==
    IF status \in {"success", "failed", "failure", "skipped"} THEN Now ELSE old

\* update_job_status (sqlite.py:369-395); startTime is Null when not given.
JobEndTime(status, old) ==
    IF status \in {"success", "failed", "failure"} THEN Now ELSE old

UpdateJobStatus(js, id, status, startTime) ==
    IF id \in DOMAIN js
    THEN [js EXCEPT ![id] =
            [@ EXCEPT !.status = status,
                      !.start_time = IF startTime # Null THEN startTime ELSE @,
                      !.end_time = JobEndTime(status, @)]]
    ELSE js

\* set_job_log (sqlite.py:397-402).
SetJobLog(js, id, log) ==
    IF id \in DOMAIN js THEN [js EXCEPT ![id] = [@ EXCEPT !.log = log]] ELSE js

\* Faulty variant of sqlite.py:417-419: the rows are not filtered by
\* pipeline_id.
JobIdsForPipeline_AllRows(js, pipelineId) == DOMAIN js

\* get_jobs_for_pipeline (sqlite.py:415-421): the ids of the rows, ORDER BY id.
JobIdsForPipeline(js, pipelineId) ==
    {i \in DOMAIN js : js[i].pipeline_id = pipelineId}

(***************************************************************************)
(* The runner contract (popsicle/runner/__init__.py:16-29): an invocation  *)
(* returns a RunnerResult or raises.                                       *)
(***************************************************************************)
RunnerOutputs == {"output"}

RunnerRaised == [raised |-> TRUE, success |-> FALSE, output |-> "exc"]

RunnerResults ==
    [raised : {FALSE}, success : BOOLEAN, output : RunnerOutputs] \cup {RunnerRaised}

NoResult == [raised |-> FALSE, success |-> FALSE, output |-> Null]

\* fmg/orchestrator/__init__.py:84: f"Runner raised unexpected error: {exc}\n"
SyntheticLog(exc) == "Runner raised unexpected error: exc"

(***************************************************************************)
(* PipelineOrchestrator (fmg/orchestrator/__init__.py)                     *)
(***************************************************************************)
\* _execution_order (153-154): config.job_order or tuple(config.jobs.keys()).
\* Faulty variant of line 154: the order of the jobs mapping, whatever the
\* resolved order.
ExecutionOrder_Declared(config) == config.jobs

\* Faulty variant of line 154: the resolved order from its end.
ExecutionOrder_Reversed(config) ==
    [i \in 1..Len(config.job_order) |->
        config.job_order[Len(config.job_order) + 1 - i]]

ExecutionOrder(config) ==
    IF config.job_order # <<>> THEN config.job_order ELSE config.jobs

\* The dict built at 144-147: a later row of the same name replaces an
\* earlier one, so each name maps to its highest id.
ExistingJobIds(js, pipelineId) ==
    LET ids == JobIdsForPipeline(js, pipelineId)
        names == {js[i].job_name : i \in ids}
    IN  [n \in names |->
            CHOOSE i \in ids : /\ js[i].job_name = n
                               /\ \A k \in ids : js[k].job_name = n => k <= i]

\* Faulty variant of line 149: a row is created for every name of the order.
MustCreateJob_Always(existing, jobName) == jobName \in JobNames

\* The loop at 148-150: create a row only for a name that has none.
MustCreateJob(existing, jobName) == jobName \notin DOMAIN existing

RECURSIVE EnsureLoop(_, _, _, _, _)
EnsureLoop(js, pipelineId, jobNames, i, existing) ==
    IF i > Len(jobNames) THEN [jobs |-> js, job_ids |-> existing]
    ELSE IF MustCreateJob(existing, jobNames[i])
         THEN LET js2 == CreateJob(js, pipelineId, jobNames[i])
              IN  EnsureLoop(js2, pipelineId, jobNames, i + 1,
                             existing @@ (jobNames[i] :> Len(js2)))
         ELSE EnsureLoop(js, pipelineId, jobNames, i + 1, existing)

\* _ensure_job_records (141-151).
EnsureJobRecords(js, pipelineId, jobNames) ==
    EnsureLoop(js, pipelineId, jobNames, 1, ExistingJobIds(js, pipelineId))

\* A run_pipeline invocation handed to the background runner.
\* observer: what the bound status reporter does ("none": no reporter is
\* bound, "reliable": its calls return, "faulty": a call may raise);
\* rmtree: what shutil.rmtree does on a workspace that exists; cleanup: the
\* outcome of the attempt made by _cleanup_workspace, "none" before it.
NewRun(config, workspace) ==
    [pc |-> "queued", config |-> config, workspace |-> workspace,
     order |-> <<>>, job_ids |-> NoDeps, idx |-> 1, completed |-> <<>>,
     failed_job |-> Null, result |-> NoResult, skip_idx |-> 1,
     calls |-> <<>>, reports |-> <<>>,
     observer |-> "reliable", rmtree |-> "ok", cleanup |-> "none"]

(***************************************************************************)
(* run_pipeline (44-139), one action per store update, so that concurrent  *)
(* runs interleave between any two of them.  A runner invocation or an     *)
(* observer notification touches nothing another run reads, and is taken   *)
(* together with the store update next to it.                              *)
(***************************************************************************)
CurrentJob(r) == r.order[r.idx]

CurrentJobId(r) == r.job_ids[CurrentJob(r)]

\* Faulty variant of line 55: the run starts without marking the pipeline
\* running.
RunBegin_NotMarked(p) ==
    /\ p \in DOMAIN runs
    /\ runs[p].pc = "queued"
    /\ runs' = [runs EXCEPT ![p].pc = IF p \in DOMAIN pipelines
                                      THEN "ensure" ELSE "done"]
    /\ UNCHANGED <<pipelines, statusLog, jobs, workspaces>>
    /\ UNCHANGED <<retryOf, triggers, loadVars, ensureVars, runner>>

\* 57-63: _report_status("pending", ..., "Pipeline is running").
StartReport == [state |-> "pending", job |-> Null, count |-> 0, raised |-> FALSE]

\* Whether a call of the reporter raises.
ReporterRaises(observer) == IF observer = "faulty" THEN BOOLEAN ELSE {FALSE}

\* Faulty variant of lines 197-202: an exception of the reporter leaves
\* _report_status.
ReportStatus_Uncaught(r, report) ==
    IF r.observer = "none" THEN {[reports |-> r.reports, propagates |-> FALSE]}
    ELSE {[reports |-> Append(r.reports, [report EXCEPT !.raised = b]),
           propagates |-> b] : b \in ReporterRaises(r.observer)}

\* _report_status (167-202): nothing is sent when no reporter is bound; an
\* exception raised by the reporter is caught and logged (197-202), so none
\* propagates to run_pipeline.  The value is the set of outcomes of the
\* call: the notifications sent so far and whether an exception propagates.
ReportStatus(r, report) ==
    IF r.observer = "none" THEN {[reports |-> r.reports, propagates |-> FALSE]}
    ELSE {[reports |-> Append(r.reports, [report EXCEPT !.raised = b]),
           propagates |-> FALSE] : b \in ReporterRaises(r.observer)}

\* Faulty variant of lines 48-53: the run goes on without looking the
\* pipeline up.
RunBegin_Unchecked(p) ==
    /\ p \in DOMAIN runs
    /\ runs[p].pc = "queued"
    /\ pipelines' = UpdatePipelineStatus(pipelines, p, "running")
    /\ statusLog' = LogStatus(statusLog, p, "running")
    /\ \E sent \in ReportStatus(runs[p], StartReport) :
          runs' = [runs EXCEPT ![p].reports = sent.reports, ![p].pc = "ensure"]
    /\ UNCHANGED <<jobs, workspaces>>
    /\ UNCHANGED <<retryOf, triggers, loadVars, ensureVars, runner>>

\* 47-63: load the pipeline; absent, return before the try; else mark it
\* running and notify the observer.
RunBegin(p) ==
    /\ p \in DOMAIN runs
    /\ runs[p].pc = "queued"
    /\ IF p \notin DOMAIN pipelines
       THEN /\ runs' = [runs EXCEPT ![p].pc = "done"]
            /\ UNCHANGED <<pipelines, statusLog>>
       ELSE /\ pipelines' = UpdatePipelineStatus(pipelines, p, "running")
            /\ statusLog' = LogStatus(statusLog, p, "running")
            /\ \E sent \in ReportStatus(runs[p], StartReport) :
                  runs' = [runs EXCEPT ![p].reports = sent.reports,
                                       ![p].pc = IF sent.propagates THEN "done"
                                                 ELSE "ensure"]
    /\ UNCHANGED <<jobs, workspaces>>
    /\ UNCHANGED <<retryOf, triggers, loadVars, ensureVars, runner>>

\* Where the for loop at 71 goes with the index at i.
LoopPc(order, i) == IF i <= Len(order) THEN "job_start" ELSE "mark_success"

\* 65-68: resolve the order and ensure one job row per job of it.
EnsureJobs(p) ==
    /\ p \in DOMAIN runs
    /\ runs[p].pc = "ensure"
    /\ LET order == ExecutionOrder(runs[p].config)
           e == EnsureJobRecords(jobs, p, order)
       IN  /\ jobs' = e.jobs
           /\ runs' = [runs EXCEPT ![p].order = order,
                                   ![p].job_ids = e.job_ids,
                                   ![p].idx = 1,
                                   ![p].completed = <<>>,
                                   ![p].failed_job = Null,
                                   ![p].pc = LoopPc(order, 1)]
    /\ UNCHANGED <<pipelines, workspaces, statusLog>>
    /\ UNCHANGED <<retryOf, triggers, loadVars, ensureVars, runner>>

\* Faulty variant of lines 74-75: the job is handed to the runner without
\* being marked running.
JobStart_NotMarked(p) ==
    /\ p \in DOMAIN runs
    /\ runs[p].pc = "job_start"
    /\ runs' = [runs EXCEPT ![p].pc = "invoke"]
    /\ UNCHANGED <<jobs, pipelines, workspaces, statusLog>>
    /\ UNCHANGED <<retryOf, triggers, loadVars, ensureVars, runner>>

\* 71-76: mark the job running with a start time.
JobStart(p) ==
    /\ p \in DOMAIN runs
    /\ runs[p].pc = "job_start"
    /\ jobs' = UpdateJobStatus(jobs, CurrentJobId(runs[p]), "running", Now)
    /\ runs' = [runs EXCEPT ![p].pc = "invoke"]
    /\ UNCHANGED <<pipelines, workspaces, statusLog>>
    /\ UNCHANGED <<retryOf, triggers, loadVars, ensureVars, runner>>

\* Faulty variant of line 84: the text of the exception is kept as the log.
LogFor_NoSyntheticLine(result) ==
    IF result.output = Null THEN "" ELSE result.output

\* 84 and 90: the log text kept for a result.
LogFor(result) ==
    IF result.raised THEN SyntheticLog(result.output)
    ELSE IF result.output = Null THEN "" ELSE result.output

\* Faulty variant of lines 78-88: an exception of the runner is not caught;
\* it leaves the loop through the finally clause.
InvokeRunner_Uncaught(p) ==
    /\ p \in DOMAIN runs
    /\ runs[p].pc = "invoke"
    /\ \E result \in RunnerResults :
          /\ jobs' = IF result.raised THEN jobs
                     ELSE SetJobLog(jobs, CurrentJobId(runs[p]), LogFor(result))
          /\ runs' = [runs EXCEPT ![p].result = result,
                                  ![p].calls = Append(@, [job |-> CurrentJob(runs[p]),
                                                          result |-> result]),
                                  ![p].pc = IF result.raised THEN "cleanup"
                                            ELSE "store_status"]
    /\ UNCHANGED <<pipelines, workspaces, statusLog>>
    /\ UNCHANGED <<retryOf, triggers, loadVars, ensureVars, runner>>

\* 78-91: the runner returns a result or raises, and set_job_log stores the
\* log kept for it.
InvokeRunner(p) ==
    /\ p \in DOMAIN runs
    /\ runs[p].pc = "invoke"
    /\ \E result \in RunnerResults :
          /\ jobs' = SetJobLog(jobs, CurrentJobId(runs[p]), LogFor(result))
          /\ runs' = [runs EXCEPT ![p].result = result,
                                  ![p].calls = Append(@, [job |-> CurrentJob(runs[p]),
                                                          result |-> result]),
                                  ![p].pc = "store_status"]
    /\ UNCHANGED <<pipelines, workspaces, statusLog>>
    /\ UNCHANGED <<retryOf, triggers, loadVars, ensureVars, runner>>

\* Faulty variant of lines 86 and 92: a failure is stored as "failed".
FinalStatus_Failed(result) ==
    IF ~result.raised /\ result.success THEN "success" ELSE "failed"

\* 86 and 92: the status kept for a result.
FinalStatus(result) ==
    IF ~result.raised /\ result.success THEN "success" ELSE "failure"

\* Faulty variant of lines 95-106: the loop goes on after a failure too.
ContinuesAfter_Always(status) == status \in JobStatuses

\* 95-97: the loop goes on to the next job only after a success.
ContinuesAfter(status) == status = "success"

\* 86-88 and 92-106: store the job's final status; on success go on with the
\* next job, else remember the failed job and leave the loop.
StoreStatus(p) ==
    /\ p \in DOMAIN runs
    /\ runs[p].pc = "store_status"
    /\ LET r == runs[p]
           status == FinalStatus(r.result)
       IN  /\ jobs' = UpdateJobStatus(jobs, CurrentJobId(r), status, Null)
           /\ IF ContinuesAfter(status)
              THEN runs' = [runs EXCEPT ![p].completed = Append(@, CurrentJob(r)),
                                        ![p].idx = r.idx + 1,
                                        ![p].pc = LoopPc(r.order, r.idx + 1)]
              ELSE runs' = [runs EXCEPT ![p].failed_job = CurrentJob(r),
                                        ![p].skip_idx = 1,
                                        ![p].pc = "skip"]
    /\ UNCHANGED <<pipelines, workspaces, statusLog>>
    /\ UNCHANGED <<retryOf, triggers, loadVars, ensureVars, runner>>

\* Faulty variant of lines 127-129: the failure is reported without naming
\* the job.
FinalReport_Unnamed(r) ==
    [state |-> IF r.failed_job = Null THEN "success" ELSE "failure",
     job |-> Null, count |-> IF r.failed_job = Null THEN Len(r.order) ELSE 0,
     raised |-> FALSE]

\* 110-116 and 127-136: the final notification.
FinalReport(r) ==
    IF r.failed_job = Null
    THEN [state |-> "success", job |-> Null, count |-> Len(r.order),
          raised |-> FALSE]
    ELSE [state |-> "failure", job |-> r.failed_job, count |-> 0,
          raised |-> FALSE]

\* 108-118: no job failed; mark the pipeline and notify the observer.
MarkSuccess(p) ==
    /\ p \in DOMAIN runs
    /\ runs[p].pc = "mark_success"
    /\ pipelines' = UpdatePipelineStatus(pipelines, p, "success")
    /\ statusLog' = LogStatus(statusLog, p, "success")
    /\ \E sent \in ReportStatus(runs[p], FinalReport(runs[p])) :
          runs' = [runs EXCEPT ![p].reports = sent.reports, ![p].pc = "cleanup"]
    /\ UNCHANGED <<jobs, workspaces>>
    /\ UNCHANGED <<retryOf, triggers, loadVars, ensureVars, runner>>

\* Faulty variant of line 121: the failed job is marked skipped as well.
IsSkipped_FailedToo(r, jobName) == jobName \notin Range(r.completed)

\* 121: the jobs the second loop passes over.
IsSkipped(r, jobName) ==
    ~(jobName \in Range(r.completed) \/ jobName = r.failed_job)

\* Faulty variant of lines 120-124: nothing is marked skipped.
ToSkip_Nothing(r, i) == {k \in i..Len(r.order) : FALSE}

\* The positions of the order, from i on, that the loop at 120 marks skipped.
ToSkip(r, i) == {k \in i..Len(r.order) : IsSkipped(r, r.order[k])}

Min(S) == CHOOSE x \in S : \A y \in S : x <= y

\* Faulty variant of line 122: the skipped job is given a start time.
SkipJob_Started(p) ==
    /\ p \in DOMAIN runs
    /\ runs[p].pc = "skip"
    /\ ToSkip(runs[p], runs[p].skip_idx) # {}
    /\ LET r == runs[p]
           k == Min(ToSkip(r, r.skip_idx))
       IN  /\ jobs' = UpdateJobStatus(jobs, r.job_ids[r.order[k]], "skipped", Now)
           /\ runs' = [runs EXCEPT ![p].skip_idx = k + 1]
    /\ UNCHANGED <<pipelines, workspaces, statusLog>>
    /\ UNCHANGED <<retryOf, triggers, loadVars, ensureVars, runner>>

\* Faulty variant of lines 120-124: the loop marks the same job again and
\* again.
SkipJob_NoAdvance(p) ==
    /\ p \in DOMAIN runs
    /\ runs[p].pc = "skip"
    /\ ToSkip(runs[p], runs[p].skip_idx) # {}
    /\ LET r == runs[p]
           k == Min(ToSkip(r, r.skip_idx))
       IN  /\ jobs' = UpdateJobStatus(jobs, r.job_ids[r.order[k]], "skipped", Null)
           /\ runs' = runs
    /\ UNCHANGED <<pipelines, workspaces, statusLog>>
    /\ UNCHANGED <<retryOf, triggers, loadVars, ensureVars, runner>>

\* 120-124: mark the next job that neither completed nor failed as skipped.
SkipJob(p) ==
    /\ p \in DOMAIN runs
    /\ runs[p].pc = "skip"
    /\ ToSkip(runs[p], runs[p].skip_idx) # {}
    /\ LET r == runs[p]
           k == Min(ToSkip(r, r.skip_idx))
       IN  /\ jobs' = UpdateJobStatus(jobs, r.job_ids[r.order[k]], "skipped", Null)
           /\ runs' = [runs EXCEPT ![p].skip_idx = k + 1]
    /\ UNCHANGED <<pipelines, workspaces, statusLog>>
    /\ UNCHANGED <<retryOf, triggers, loadVars, ensureVars, runner>>

\* 126-136: the loop at 120 is over; mark the pipeline failed and notify
\* the observer.
MarkFailure(p) ==
    /\ p \in DOMAIN runs
    /\ runs[p].pc = "skip"
    /\ ToSkip(runs[p], runs[p].skip_idx) = {}
    /\ pipelines' = UpdatePipelineStatus(pipelines, p, "failure")
    /\ statusLog' = LogStatus(statusLog, p, "failure")
    /\ \E sent \in ReportStatus(runs[p], FinalReport(runs[p])) :
          runs' = [runs EXCEPT ![p].reports = sent.reports, ![p].pc = "cleanup"]
    /\ UNCHANGED <<jobs, workspaces>>
    /\ UNCHANGED <<retryOf, triggers, loadVars, ensureVars, runner>>

\* _cleanup_workspace (157-165): a directory that is missing is passed
\* over, any other failure of rmtree is logged and the directory stays.
CleanupOutcome(r, ws) ==
    IF r.workspace \notin ws THEN "missing"
    ELSE IF r.rmtree = "ok" THEN "deleted" ELSE "failed"

\* Faulty variant of lines 157-165: the directory that holds every
\* pipeline's workspace is removed.
CleanupWorkspace_WholeBase(p) ==
    /\ p \in DOMAIN runs
    /\ runs[p].pc = "cleanup"
    /\ workspaces' = {}
    /\ runs' = [runs EXCEPT ![p].pc = "done", ![p].cleanup = "deleted"]
    /\ UNCHANGED <<pipelines, jobs, statusLog>>
    /\ UNCHANGED <<retryOf, triggers, loadVars, ensureVars, runner>>

\* 138-139: the finally clause attempts to remove the workspace directory.
CleanupWorkspace(p) ==
    /\ p \in DOMAIN runs
    /\ runs[p].pc = "cleanup"
    /\ workspaces' = IF CleanupOutcome(runs[p], workspaces) = "deleted"
                     THEN workspaces \ {runs[p].workspace} ELSE workspaces
    /\ runs' = [runs EXCEPT ![p].pc = "done",
                            ![p].cleanup = CleanupOutcome(runs[p], workspaces)]
    /\ UNCHANGED <<pipelines, jobs, statusLog>>
    /\ UNCHANGED <<retryOf, triggers, loadVars, ensureVars, runner>>

(***************************************************************************)
(* The source trees a fetch can deliver: the sorted sequence of the        *)
(* configuration files under .popsicle, empty when the directory is        *)
(* missing or holds no file.  A file's config_path is its position.        *)
(***************************************************************************)
Commits == {"c1"}

DocSingle == [jobs |-> <<"build">>, has_workflow |-> FALSE, workflow |-> <<>>]

DocThree ==
    [jobs |-> <<"test", "build", "lint">>,
     has_workflow |-> TRUE,
     workflow |-> <<[job |-> "test", requires |-> {"build"}]>>]

DocCycle ==
    [jobs |-> <<"build", "test">>,
     has_workflow |-> TRUE,
     workflow |-> <<[job |-> "build", requires |-> {"test"}],
                    [job |-> "test", requires |-> {"build"}]>>]

PushDocs == {DocSingle, DocThree, DocCycle}

\* copy_ok: whether shutil.copytree into the pipeline workspace succeeds.
TreeFiles == [doc : PushDocs, copy_ok : BOOLEAN]

Trees(n) == SeqsUpTo(TreeFiles, n)

\* webhook/app.py:236-237 and webui/routes.py:331-332: one row per job of
\* config.jobs, in the order of the jobs mapping.
\* Faulty variant: only the first job of the mapping gets a row.
CreateJobs_FirstOnly(js, pipelineId, jobKeys, i) ==
    IF jobKeys = <<>> THEN js ELSE CreateJob(js, pipelineId, jobKeys[1])

RECURSIVE CreateJobs(_, _, _, _)
CreateJobs(js, pipelineId, jobKeys, i) ==
    IF i > Len(jobKeys) THEN js
    ELSE CreateJobs(CreateJob(js, pipelineId, jobKeys[i]), pipelineId, jobKeys, i + 1)

\* webhook/app.py:210-212: copytree(..., dirs_exist_ok=False) into
\* workspace_base / f"pipeline-{pipeline_id}".
CopyTreeSucceeds(ws, pipelineId, copyOk) == copyOk /\ pipelineId \notin ws

\* The handler that created each row: webhook/app.py:138, 176, 202 for a
\* push, webui/routes.py:301 for a retry of pipeline `by`.
CreatedBy(old, n, by) ==
    [i \in 1..n |-> IF i <= Len(old) THEN old[i] ELSE by]

\* The store, the directories and the background queue while a handler runs.
HandlerState(ps, js, ws, rs, log) ==
    [pipelines |-> ps, jobs |-> js, workspaces |-> ws, runs |-> rs,
     statusLog |-> log]

\* A pipeline row created and at once marked failed (webhook/app.py:138-145,
\* 176-183, 202-217; webui/routes.py:301-313).
FailSetup_NotMarked(st, ps, id) ==
    [st EXCEPT !.pipelines = ps, !.statusLog = LogCreate(st.statusLog)]

FailSetup(st, ps, id) ==
    [st EXCEPT !.pipelines = UpdatePipelineStatus(ps, id, "failure"),
               !.statusLog = LogStatus(LogCreate(st.statusLog), id, "failure")]

\* webhook/app.py:166-253, one pass of the loop over the configuration files.
PushFile(st, commit, file, path) ==
    LET config == LoadPipelineConfig(file.doc)
        ps     == CreatePipeline(st.pipelines, commit, path, path)
        id     == Len(ps)
    IN  IF ~config.ok
        THEN FailSetup(st, ps, id)
        ELSE IF ~CopyTreeSucceeds(st.workspaces, id, file.copy_ok)
        THEN FailSetup(st, ps, id)
        ELSE HandlerState(ps,
                          CreateJobs(st.jobs, id, config.jobs, 1),
                          st.workspaces \cup {id},
                          st.runs @@ (id :> NewRun(config, id)),
                          LogCreate(st.statusLog))

\* The loop leaving at the first file whose configuration does not load.
RECURSIVE PushFiles_StopAtFailure(_, _, _, _)
PushFiles_StopAtFailure(st, commit, files, i) ==
    IF i > Len(files) THEN st
    ELSE LET next == PushFile(st, commit, files[i], i)
         IN  IF ~LoadPipelineConfig(files[i].doc).ok THEN next
             ELSE PushFiles_StopAtFailure(next, commit, files, i + 1)

RECURSIVE PushFiles(_, _, _, _)
PushFiles(st, commit, files, i) ==
    IF i > Len(files) THEN st
    ELSE PushFiles(PushFile(st, commit, files[i], i), commit, files, i + 1)

\* webhook/app.py:134-164: list_pipeline_config_paths raised.
PushNoConfig(st, commit) ==
    LET ps == CreatePipeline(st.pipelines, commit, 1, 1)
    IN  FailSetup(st, ps, Len(ps))

\* handle_webhook (webhook/app.py:86-308) for a push event: fetch the tree,
\* set up one pipeline per configuration file, then submit the queued ones.
HandleWebhook(commit, cloneOk, tree) ==
    LET st0 == HandlerState(pipelines, jobs, workspaces, runs, statusLog)
        st  == IF ~cloneOk THEN st0
               ELSE IF tree = <<>> THEN PushNoConfig(st0, commit)
               ELSE PushFiles(st0, commit, tree, 1)
    IN  /\ pipelines' = st.pipelines
        /\ jobs' = st.jobs
        /\ workspaces' = st.workspaces
        /\ runs' = st.runs
        /\ statusLog' = st.statusLog
        /\ retryOf' = CreatedBy(retryOf, Len(st.pipelines), 0)
        /\ UNCHANGED <<loadVars, ensureVars, runner>>

Push ==
    /\ Len(pipelines) < MaxPipelines
    /\ \E commit \in Commits, cloneOk \in BOOLEAN,
          tree \in Trees(MaxPipelines - Len(pipelines)) :
          HandleWebhook(commit, cloneOk, tree)
    /\ UNCHANGED triggers

(***************************************************************************)
(* retry_pipeline (webui/routes.py:247-377)                                *)
(***************************************************************************)
\* Faulty variant of routes.py:43: a running pipeline may be retried.
RESTRICTED_STATUSES_PendingOnly == {"pending"}

RESTRICTED_STATUSES == {"pending", "running"}

\* 248-267: the requests the route serves.
CanRetry(p) ==
    /\ p \in DOMAIN pipelines
    /\ pipelines[p].status \notin RESTRICTED_STATUSES

\* 254-259: a request for a pipeline that is pending or running is answered
\* with a notice and a redirect.
RetryRejected(p) ==
    /\ p \in DOMAIN pipelines
    /\ pipelines[p].status \in RESTRICTED_STATUSES
    /\ UNCHANGED <<pipelines, jobs, runs, workspaces, statusLog, retryOf>>
    /\ UNCHANGED <<loadVars, ensureVars, runner>>

\* Faulty variant of lines 301-355: the retried pipeline itself is put back
\* to pending and run again.
RetryPipeline_InPlace(p, cloneOk, file) ==
    LET config == LoadPipelineConfig(file.doc)
        again  == cloneOk /\ config.ok
    IN  /\ CanRetry(p)
        /\ pipelines' = IF again THEN UpdatePipelineStatus(pipelines, p, "pending")
                         ELSE pipelines
        /\ statusLog' = IF again THEN LogStatus(statusLog, p, "pending")
                         ELSE statusLog
        /\ runs' = IF again
                    THEN [q \in DOMAIN runs \cup {p} |->
                             IF q = p THEN NewRun(config, p) ELSE runs[q]]
                    ELSE runs
        /\ UNCHANGED <<jobs, workspaces, retryOf>>
        /\ UNCHANGED <<loadVars, ensureVars, runner>>

\* Faulty variant of lines 295-299: a configuration that does not load is
\* recorded as a failed pipeline, as the push handler does.
RetryPipeline_RecordsFailure(p, cloneOk, file) ==
    LET config == LoadPipelineConfig(file.doc)
        st0    == HandlerState(pipelines, jobs, workspaces, runs, statusLog)
        ps     == CreatePipeline(pipelines, pipelines[p].commit_sha,
                                 pipelines[p].config_path, pipelines[p].config_path)
        id     == Len(ps)
        st     == IF ~cloneOk THEN st0
                  ELSE IF ~config.ok \/ ~CopyTreeSucceeds(workspaces, id, file.copy_ok)
                  THEN FailSetup(st0, ps, id)
                  ELSE HandlerState(ps,
                                    CreateJobs(jobs, id, config.jobs, 1),
                                    workspaces \cup {id},
                                    runs @@ (id :> NewRun(config, id)),
                                    LogCreate(statusLog))
    IN  /\ CanRetry(p)
        /\ pipelines' = st.pipelines
        /\ jobs' = st.jobs
        /\ workspaces' = st.workspaces
        /\ runs' = st.runs
        /\ statusLog' = st.statusLog
        /\ retryOf' = CreatedBy(retryOf, Len(st.pipelines), p)
        /\ UNCHANGED <<loadVars, ensureVars, runner>>

\* 285-371: fetch at the original commit, reload the file at the original
\* config_path, create a new pipeline with its job rows and submit its run.
RetryPipeline(p, cloneOk, file) ==
    LET config == LoadPipelineConfig(file.doc)
        st0    == HandlerState(pipelines, jobs, workspaces, runs, statusLog)
        ps     == CreatePipeline(pipelines, pipelines[p].commit_sha,
                                 pipelines[p].config_path, pipelines[p].config_path)
        id     == Len(ps)
        st     == IF ~cloneOk \/ ~config.ok THEN st0
                  ELSE IF ~CopyTreeSucceeds(workspaces, id, file.copy_ok)
                  THEN FailSetup(st0, ps, id)
                  ELSE HandlerState(ps,
                                    CreateJobs(jobs, id, config.jobs, 1),
                                    workspaces \cup {id},
                                    runs @@ (id :> NewRun(config, id)),
                                    LogCreate(statusLog))
    IN  /\ CanRetry(p)
        /\ pipelines' = st.pipelines
        /\ jobs' = st.jobs
        /\ workspaces' = st.workspaces
        /\ runs' = st.runs
        /\ statusLog' = st.statusLog
        /\ retryOf' = CreatedBy(retryOf, Len(st.pipelines), p)
        /\ UNCHANGED <<loadVars, ensureVars, runner>>

Retry ==
    /\ Len(pipelines) < MaxPipelines
    /\ \E p \in DOMAIN pipelines, cloneOk \in BOOLEAN, file \in TreeFiles :
          RetryPipeline(p, cloneOk, file)
    /\ UNCHANGED triggers

(***************************************************************************)
(* The system: pushes, retries and the submitted runs, interleaved.        *)
(***************************************************************************)
\* No call of DockerRunner.run is under way.
RunnerIdle == [pc |-> "idle"]

InitLoadIdle ==
    /\ runner = RunnerIdle
    /\ doc = DocSingle
    /\ loadPc = "idle"
    /\ dependencies = NoDeps
    /\ loaded = NotLoaded

InitStore ==
    /\ pipelines = <<>>
    /\ jobs = <<>>
    /\ runs = NoDeps
    /\ workspaces = {}
    /\ statusLog = <<>>
    /\ retryOf = <<>>
    /\ triggers = <<>>

InitEnsureIdle ==
    /\ ensured = NoDeps
    /\ ensureCalls = 0

Init == InitLoadIdle /\ InitStore /\ InitEnsureIdle

RunStep ==
    \E p \in DOMAIN runs :
        \/ RunBegin(p)
        \/ EnsureJobs(p)
        \/ JobStart(p)
        \/ InvokeRunner(p)
        \/ StoreStatus(p)
        \/ MarkSuccess(p)
        \/ SkipJob(p)
        \/ MarkFailure(p)
        \/ CleanupWorkspace(p)

Next == Push \/ Retry \/ RunStep

Spec == Init /\ [][Next]_vars

(***************************************************************************)
(* The same system with a record of what each handler invocation was       *)
(* given: whether the fetch succeeded, the configuration files the fetched *)
(* tree held, the pipeline retried (0 for a push) and the number of        *)
(* pipeline rows that existed before.                                      *)
(***************************************************************************)
\* A workflow of two jobs, the second waiting for the first.
DocPair ==
    [jobs |-> <<"build", "test">>,
     has_workflow |-> TRUE,
     workflow |-> <<[job |-> "test", requires |-> {"build"}]>>]

TriggerDocs == {DocPair, DocCycle}

\* The copy into the workspace is attempted only for a file that loads.
TriggerFiles ==
    {f \in [doc : TriggerDocs, copy_ok : BOOLEAN] :
        LoadPipelineConfig(f.doc).ok \/ f.copy_ok}

TriggerTrees(n) == SeqsUpTo(TriggerFiles, n)

Trigger(kind, cloneOk, files, of) ==
    [kind |-> kind, fetched |-> TRUE, fetch_ok |-> cloneOk,
     files |-> IF cloneOk THEN files ELSE <<>>,
     of |-> of, base |-> Len(pipelines)]

PushLogged ==
    /\ Len(pipelines) < MaxPipelines
    /\ Len(triggers) < MaxTriggers
    /\ \E commit \in Commits, cloneOk \in BOOLEAN,
          tree \in TriggerTrees(MaxPipelines - Len(pipelines)) :
          /\ HandleWebhook(commit, cloneOk, tree)
          /\ triggers' = Append(triggers, Trigger("push", cloneOk, tree, 0))

RetryLogged ==
    /\ Len(pipelines) < MaxPipelines
    /\ Len(triggers) < MaxTriggers
    /\ \E p \in DOMAIN pipelines, cloneOk \in BOOLEAN, file \in TriggerFiles :
          /\ RetryPipeline(p, cloneOk, file)
          /\ triggers' = Append(triggers, Trigger("retry", cloneOk, <<file>>, p))

NextTrigger == PushLogged \/ RetryLogged \/ RunStep

SpecTrigger == Init /\ [][NextTrigger]_vars

(***************************************************************************)
(* The retry route with the requests it turns down: pushes of one workflow *)
(* file, retry requests for any recorded pipeline, and the submitted runs. *)
(***************************************************************************)
\* A retry request the route turns down before it fetches anything.
Rejected(p) ==
    [kind |-> "retry", fetched |-> FALSE, fetch_ok |-> FALSE, files |-> <<>>,
     of |-> p, base |-> Len(pipelines)]

PushSingle ==
    /\ Len(pipelines) < MaxPipelines
    /\ Len(triggers) < MaxTriggers
    /\ \E commit \in Commits, file \in TriggerFiles :
          /\ HandleWebhook(commit, TRUE, <<file>>)
          /\ triggers' = Append(triggers, Trigger("push", TRUE, <<file>>, 0))

RetryAnswered ==
    \/ RetryLogged
    \/ /\ Len(triggers) < MaxTriggers
       /\ \E p \in DOMAIN pipelines :
             /\ RetryRejected(p)
             /\ triggers' = Append(triggers, Rejected(p))

NextRetry == PushSingle \/ RetryAnswered \/ RunStep

SpecRetry == Init /\ [][NextRetry]_vars

(***************************************************************************)
(* handle_webhook with a status reporter whose calls may raise.  The       *)
(* handler calls the reporter once for every configuration file, after the *)
(* store updates for that file (report_failure at webhook/app.py:146, 184  *)
(* and 218, report_pending at 239); raisesAt is the file at which the call *)
(* raises, 0 when none does.  The call is inside the try of line 127 and   *)
(* nowhere else, so the exception ends the loop at the handler of lines    *)
(* 290-305, before the submissions of lines 255-263.                       *)
(***************************************************************************)
RECURSIVE PushFilesNotifying(_, _, _, _, _)
PushFilesNotifying(st, commit, files, i, raisesAt) ==
    IF i > Len(files) THEN [state |-> st, aborted |-> FALSE]
    ELSE LET next == PushFile(st, commit, files[i], i)
         IN  IF i = raisesAt THEN [state |-> next, aborted |-> TRUE]
             ELSE PushFilesNotifying(next, commit, files, i + 1, raisesAt)

HandleWebhookNotifying(commit, tree, raisesAt) ==
    LET st0  == HandlerState(pipelines, jobs, workspaces, runs, statusLog)
        done == IF tree = <<>>
                THEN [state |-> PushNoConfig(st0, commit), aborted |-> raisesAt # 0]
                ELSE PushFilesNotifying(st0, commit, tree, 1, raisesAt)
    IN  /\ pipelines' = done.state.pipelines
        /\ jobs' = done.state.jobs
        /\ workspaces' = done.state.workspaces
        /\ runs' = IF done.aborted THEN runs ELSE done.state.runs
        /\ statusLog' = done.state.statusLog
        /\ retryOf' = CreatedBy(retryOf, Len(done.state.pipelines), 0)
        /\ UNCHANGED <<loadVars, ensureVars, runner>>

PushNotifying ==
    /\ Len(pipelines) < MaxPipelines
    /\ Len(triggers) < MaxTriggers
    /\ \E commit \in Commits,
          tree \in TriggerTrees(MaxPipelines - Len(pipelines)) :
          \E raisesAt \in 0..(IF tree = <<>> THEN 1 ELSE Len(tree)) :
              /\ HandleWebhookNotifying(commit, tree, raisesAt)
              /\ triggers' = Append(triggers, Trigger("push", TRUE, tree, 0))

NextNotify == PushNotifying \/ RunStep

SpecNotify == Init /\ [][NextNotify]_vars

(***************************************************************************)
(* Loading alone: load_pipeline_config on every document of Docs, in the   *)
(* three stages of config_parser.py:104-162.                               *)
(***************************************************************************)
InitLoad ==
    /\ runner = RunnerIdle
    /\ doc \in Docs
    /\ loadPc = "jobs"
    /\ dependencies = NoDeps
    /\ loaded = NotLoaded
    /\ InitStore
    /\ InitEnsureIdle

\* 104-145: the jobs section must declare at least one job.
LoadJobsSection ==
    /\ loadPc = "jobs"
    /\ IF doc.jobs = <<>>
       THEN /\ loaded' = LoadPipelineConfig(doc)
            /\ loadPc' = "done"
       ELSE /\ loadPc' = "workflow"
            /\ UNCHANGED loaded
    /\ UNCHANGED <<doc, dependencies>>
    /\ UNCHANGED <<sysVars, ensureVars, runner>>

\* 147-152: _extract_workflow_details.
LoadWorkflow ==
    /\ loadPc = "workflow"
    /\ LET w == ExtractWorkflowDetails(doc)
       IN  IF w.ok
           THEN /\ dependencies' = w.deps
                /\ loadPc' = "sort"
                /\ UNCHANGED loaded
           ELSE /\ loaded' = LoadPipelineConfig(doc)
                /\ loadPc' = "done"
                /\ UNCHANGED dependencies
    /\ UNCHANGED doc
    /\ UNCHANGED <<sysVars, ensureVars, runner>>

\* 153-162: _topological_sort, then the PipelineConfig is built.
LoadSort ==
    /\ loadPc = "sort"
    /\ loaded' = LoadPipelineConfig(doc)
    /\ loadPc' = "done"
    /\ UNCHANGED <<doc, dependencies>>
    /\ UNCHANGED <<sysVars, ensureVars, runner>>

NextLoad == LoadJobsSection \/ LoadWorkflow \/ LoadSort

SpecLoad == InitLoad /\ [][NextLoad]_vars

(***************************************************************************)
(* The jobs section (config_parser.py:104-145).  A document is the list of *)
(* the entries of its jobs mapping, in key order.  An entry gives the      *)
(* shape of the job body: what its docker key holds, and its steps key.    *)
(* Texts are the strings the checks tell apart: empty, blank, a command,   *)
(* the marker checkout (bare and padded) and another word.                 *)
(***************************************************************************)
\* str.strip() on the texts of the model.
Strip(text) ==
    CASE text = " " -> ""
      [] text = " checkout " -> "checkout"
      [] OTHER -> text

NoValue == [type |-> "none", text |-> ""]

\* The value under a step's single key: a string, a mapping whose command
\* is a string, a mapping without such a command, anything else.
StepValues ==
    [type : {"str"}, text : {"", " ", "make"}]
        \cup [type : {"map"}, text : {"", "make"}]
        \cup [type : {"map_without_command", "other"}, text : {""}]

\* A raw step: a string, a mapping (size keys, the first being key), or
\* anything else.
RawSteps ==
    [type : {"str"}, text : {"checkout", " checkout ", "deploy"},
     size : {0}, key : {""}, value : {NoValue}]
        \cup [type : {"map"}, text : {""}, size : {1}, key : {"run"},
              value : StepValues]
        \cup [type : {"map"}, text : {""}, size : {0, 1, 2}, key : {"deploy"},
              value : {[type |-> "str", text |-> "make"]}]
        \cup [type : {"other"}, text : {""}, size : {0}, key : {""},
              value : {NoValue}]

\* The steps key: not a list, or a list of raw steps.
StepsSections ==
    [is_list : {FALSE}, items : {<<>>}]
        \cup [is_list : {TRUE}, items : SeqsUpTo(RawSteps, MaxSteps)]

\* The docker key: missing or not a list; an empty list; a first entry that
\* is no mapping or has no image key; an image that is no string; an image
\* string, possibly empty.
DockerShapes == {"absent", "empty", "no_image", "not_string", "", "img"}

JobBodies ==
    [is_mapping : {TRUE}, docker : DockerShapes, steps : StepsSections]
        \cup [is_mapping : {FALSE}, docker : {"absent"},
              steps : {[is_list |-> FALSE, items |-> <<>>]}]

GoodStep == [type |-> "map", text |-> "", size |-> 1, key |-> "run",
             value |-> [type |-> "str", text |-> "make"]]

\* The bodies a second job of the document takes.
SecondBodies ==
    {[is_mapping |-> TRUE, docker |-> "img",
      steps |-> [is_list |-> TRUE, items |-> <<GoodStep>>]],
     [is_mapping |-> TRUE, docker |-> "absent",
      steps |-> [is_list |-> TRUE, items |-> <<GoodStep>>]],
     [is_mapping |-> TRUE, docker |-> "img",
      steps |-> [is_list |-> TRUE, items |-> <<>>]],
     [is_mapping |-> TRUE, docker |-> "img",
      steps |-> [is_list |-> TRUE,
                 items |-> <<[GoodStep EXCEPT !.value.text = ""]>>]]}

JobsSections ==
    {<<>>}
        \cup {<<[name |-> "build", body |-> b]>> : b \in JobBodies}
        \cup {<<[name |-> "build", body |-> b], [name |-> "test", body |-> c]>> :
                 b \in JobBodies, c \in SecondBodies}

\* A parse that failed: the kind of the message and the job it names, Null
\* when the message names none.
ParseError(kind, jobName) ==
    [ok |-> FALSE, error |-> kind, job |-> jobName, steps |-> <<>>, image |-> ""]

StepSpec(kind, command) == [kind |-> kind, command |-> command]

\* _parse_simple_step (165-169).
ParseSimpleStep(raw) ==
    IF Strip(raw.text) # "checkout"
    THEN [ok |-> FALSE, error |-> "unsupported_step", step |-> StepSpec("", Null)]
    ELSE [ok |-> TRUE, error |-> "", step |-> StepSpec("checkout", Null)]

\* 180-183: the value is a string, or a mapping whose command is a string.
HasCommand(value) == value.type \in {"str", "map"}

\* _parse_mapping_step (172-187).
ParseMappingStep(raw) ==
    IF raw.size # 1
    THEN [ok |-> FALSE, error |-> "unsupported_step_mapping",
          step |-> StepSpec("", Null)]
    ELSE IF raw.key # "run"
    THEN [ok |-> FALSE, error |-> "unsupported_step_type",
          step |-> StepSpec("", Null)]
    ELSE IF ~HasCommand(raw.value)
    THEN [ok |-> FALSE, error |-> "run_without_command",
          step |-> StepSpec("", Null)]
    ELSE [ok |-> TRUE, error |-> "", step |-> StepSpec("run", raw.value.text)]

\* 133-143: the loop over the steps list of one job.
RECURSIVE ParseSteps(_, _, _, _)
ParseSteps(jobName, items, i, steps) ==
    IF i > Len(items) THEN [ok |-> TRUE, error |-> "", job |-> Null, steps |-> steps]
    ELSE IF items[i].type = "other"
    THEN [ok |-> FALSE, error |-> "unsupported_step_format", job |-> jobName,
          steps |-> <<>>]
    ELSE LET parsed == IF items[i].type = "str" THEN ParseSimpleStep(items[i])
                       ELSE ParseMappingStep(items[i])
         IN  IF ~parsed.ok
             THEN [ok |-> FALSE, error |-> parsed.error, job |-> Null,
                   steps |-> <<>>]
             ELSE ParseSteps(jobName, items, i + 1, Append(steps, parsed.step))

\* Faulty variant of lines 129-131: an empty steps list is let through.
StepsSectionOk_EmptyAllowed(section) == section.is_list

\* 129-130: the steps key holds a list that is not empty.
StepsSectionOk(section) == section.is_list /\ section.items # <<>>

\* 110-145: one entry of the jobs mapping.
ParseJob(entry) ==
    LET body == entry.body
    IN  IF ~body.is_mapping THEN ParseError("job_not_mapping", entry.name)
        ELSE IF body.docker \in {"absent", "empty"}
        THEN ParseError("no_docker_image", entry.name)
        ELSE IF body.docker = "no_image"
        THEN ParseError("docker_without_image", entry.name)
        ELSE IF body.docker = "not_string"
        THEN ParseError("image_not_string", entry.name)
        ELSE IF ~StepsSectionOk(body.steps)
        THEN ParseError("no_steps", entry.name)
        ELSE LET parsed == ParseSteps(entry.name, body.steps.items, 1, <<>>)
             IN  IF ~parsed.ok THEN ParseError(parsed.error, parsed.job)
                 ELSE [ok |-> TRUE, error |-> "", job |-> entry.name,
                       steps |-> parsed.steps, image |-> body.docker]

\* The outcome of a load: the PipelineConfig with the JobSpec of every job,
\* or the error of the first check that fails.
RECURSIVE ParseJobs(_, _, _)
ParseJobs(section, i, specs) ==
    IF i > Len(section) THEN [ok |-> TRUE, error |-> "", job |-> Null, specs |-> specs]
    ELSE LET parsed == ParseJob(section[i])
         IN  IF ~parsed.ok
             THEN [ok |-> FALSE, error |-> parsed.error, job |-> parsed.job,
                   specs |-> <<>>]
             ELSE ParseJobs(section, i + 1,
                            Append(specs, [name |-> section[i].name,
                                           image |-> parsed.image,
                                           steps |-> parsed.steps]))

JobNamesOf(section) == [i \in DOMAIN section |-> section[i].name]

\* load_pipeline_config (83-162) on a document without workflows block.
LoadJobsDocument(section) ==
    IF section = <<>>
    THEN [ok |-> FALSE, error |-> "no_jobs", job |-> Null, specs |-> <<>>,
          config |-> ConfigError("no_jobs", <<>>)]
    ELSE LET parsed == ParseJobs(section, 1, <<>>)
         IN  IF ~parsed.ok
             THEN [parsed EXCEPT !.specs = <<>>] @@
                  [config |-> ConfigError(parsed.error, <<>>)]
             ELSE parsed @@
                  [config |-> LoadPipelineConfig(
                                  [jobs |-> JobNamesOf(section),
                                   has_workflow |-> FALSE, workflow |-> <<>>])]

InitParse ==
    /\ runner = RunnerIdle
    /\ doc \in JobsSections
    /\ loadPc = "jobs"
    /\ dependencies = NoDeps
    /\ loaded = NotLoaded
    /\ InitStore
    /\ InitEnsureIdle

ParseDocument ==
    /\ loadPc = "jobs"
    /\ loaded' = LoadJobsDocument(doc)
    /\ loadPc' = "done"
    /\ UNCHANGED <<doc, dependencies>>
    /\ UNCHANGED <<sysVars, ensureVars, runner>>

NextParse == ParseDocument

SpecParse == InitParse /\ [][NextParse]_vars

(***************************************************************************)
(* DockerRunner.run (popsicle/runner/__init__.py:41-126) on one job.  The  *)
(* engine is what subprocess.run meets: a docker binary that runs the      *)
(* container, no binary, or another fault.  A command is a text the shell  *)
(* of the container splits into statements at every semicolon; each        *)
(* statement is a program with a fixed exit status.  What the container    *)
(* prints is not kept.                                                     *)
(***************************************************************************)
CommandTexts == {"true", "false", "fail2", "false; true"}

\* The statements sh reads in a command text.
Statements(text) ==
    IF text = "false; true" THEN <<"false", "true">> ELSE <<text>>

\* The exit status of a statement; a text that is no program is a syntax
\* error of the shell.
ExitCode(statement) ==
    CASE statement = "true" -> 0
      [] statement = "false" -> 1
      [] OTHER -> 2

RunnerStepSpecs ==
    {StepSpec("checkout", Null), StepSpec("deploy", Null), StepSpec("run", Null)}
        \cup {StepSpec("run", c) : c \in CommandTexts \cup {"", " "}}

JobSpecs ==
    [name : {"build"}, image : {"img"},
     steps : SeqsUpTo(RunnerStepSpecs, MaxSteps)]

Engines == {"ok", "missing", "fault"}

LogLine(tag, text) == [tag |-> tag, text |-> text]

\* 55: (step.command or "").strip().
CommandOf(step) == IF step.command = Null THEN "" ELSE Strip(step.command)

\* Faulty variant of lines 49-60: every step is taken as a run step.
StepFault_None(step) == ""

\* 49 and 55-56: what is wrong with a step that is no checkout.
StepFault(step) ==
    IF step.kind # "run" THEN "unsupported"
    ELSE IF CommandOf(step) = "" THEN "missing_command"
    ELSE ""

\* 44-63: the loop over the steps.
RECURSIVE ScanSteps(_, _, _, _)
ScanSteps(job, i, logs, run_commands) ==
    IF i > Len(job.steps)
    THEN [ok |-> TRUE, logs |-> logs, run_commands |-> run_commands]
    ELSE IF job.steps[i].kind = "checkout"
    THEN ScanSteps(job, i + 1, Append(logs, LogLine("checkout", "")), run_commands)
    ELSE IF StepFault(job.steps[i]) # ""
    THEN [ok |-> FALSE,
          logs |-> Append(logs, LogLine(StepFault(job.steps[i]), job.name)),
          run_commands |-> run_commands]
    ELSE ScanSteps(job, i + 1,
                   Append(logs, LogLine("$", CommandOf(job.steps[i]))),
                   Append(run_commands, CommandOf(job.steps[i])))

\* 65-68: " && ".join(run_commands), as the list of statements the shell
\* reads: the first statement of every command but the first is joined to
\* what precedes by &&, every other statement starts a new list.
RECURSIVE Joined(_, _)
Joined(run_commands, c) ==
    IF c > Len(run_commands) THEN <<>>
    ELSE LET statements == Statements(run_commands[c])
         IN  [k \in DOMAIN statements |->
                 [command |-> c, statement |-> k, text |-> statements[k],
                  and_then |-> (k = 1 /\ c > 1)]]
             \o Joined(run_commands, c + 1)

\* sh -c on the joined text (86-94): a statement joined by && runs only
\* when the list before it has status 0; the status of the last list is
\* the return code.
RECURSIVE ShellRun(_, _, _, _)
ShellRun(program, i, status, executed) ==
    IF i > Len(program) THEN [returncode |-> status, executed |-> executed]
    ELSE IF program[i].and_then /\ status # 0
    THEN ShellRun(program, i + 1, status, executed)
    ELSE ShellRun(program, i + 1, ExitCode(program[i].text),
                  executed \cup {<<program[i].command, program[i].statement>>})

NoCompleted == [returncode |-> Null, executed |-> {}]

NoRunnerResult == [success |-> Null, output |-> <<>>, return_code |-> Null]

RunnerResult(success, output, returnCode) ==
    [success |-> success, output |-> output, return_code |-> returnCode]

InitRunner ==
    /\ doc = DocSingle
    /\ loadPc = "idle"
    /\ dependencies = NoDeps
    /\ loaded = NotLoaded
    /\ InitStore
    /\ InitEnsureIdle
    /\ \E job \in JobSpecs, engine \in Engines :
          runner = [pc |-> "steps", job |-> job, engine |-> engine,
                    logs |-> <<LogLine("job", job.name), LogLine("image", job.image)>>,
                    run_commands |-> <<>>, invoked |-> FALSE,
                    completed |-> NoCompleted, raised |-> FALSE,
                    result |-> NoRunnerResult]

\* 42-63: the steps are looked at one after the other; the first one that
\* is unsupported or has no command ends the call.
RunnerScan ==
    /\ runner.pc = "steps"
    /\ LET scan == ScanSteps(runner.job, 1, runner.logs, <<>>)
       IN  runner' = [runner EXCEPT
                        !.logs = scan.logs,
                        !.run_commands = scan.run_commands,
                        !.result = IF scan.ok THEN @
                                   ELSE RunnerResult(FALSE, scan.logs, Null),
                        !.pc = IF scan.ok THEN "invoke" ELSE "done"]
    /\ UNCHANGED <<loadVars, sysVars, ensureVars>>

\* 65-71: the log as it is when subprocess.run is called.
LogsAtInvoke(logs, run_commands) ==
    IF run_commands # <<>> THEN logs ELSE Append(logs, LogLine("no-op", ""))

\* Faulty variant of lines 95-103: a fault of the engine is not caught.
RunnerInvoke_Uncaught ==
    /\ runner.pc = "invoke"
    /\ LET logs == LogsAtInvoke(runner.logs, runner.run_commands)
       IN  IF runner.engine = "ok"
           THEN runner' = [runner EXCEPT
                             !.logs = logs, !.invoked = TRUE,
                             !.completed = ShellRun(Joined(runner.run_commands, 1),
                                                    1, 0, {}),
                             !.pc = "report"]
           ELSE runner' = [runner EXCEPT
                             !.logs = logs, !.invoked = TRUE, !.raised = TRUE,
                             !.pc = "done"]
    /\ UNCHANGED <<loadVars, sysVars, ensureVars>>

\* 65-103: the commands are joined and handed to subprocess.run; a missing
\* binary or another exception becomes a failed result.
RunnerInvoke ==
    /\ runner.pc = "invoke"
    /\ LET logs == LogsAtInvoke(runner.logs, runner.run_commands)
           fault == Append(logs, LogLine(IF runner.engine = "missing"
                                         THEN "binary_not_found"
                                         ELSE "execution_raised", ""))
       IN  IF runner.engine = "ok"
           THEN runner' = [runner EXCEPT
                             !.logs = logs, !.invoked = TRUE,
                             !.completed = ShellRun(Joined(runner.run_commands, 1),
                                                    1, 0, {}),
                             !.pc = "report"]
           ELSE runner' = [runner EXCEPT
                             !.logs = fault, !.invoked = TRUE,
                             !.result = RunnerResult(FALSE, fault, Null),
                             !.pc = "done"]
    /\ UNCHANGED <<loadVars, sysVars, ensureVars>>

\* 118-126: the result is a success when the return code is 0.
RunnerReport ==
    /\ runner.pc = "report"
    /\ LET code == runner.completed.returncode
           logs == IF code = 0 THEN runner.logs
                   ELSE Append(runner.logs, LogLine("exited_with_code", code))
       IN  runner' = [runner EXCEPT
                        !.logs = logs,
                        !.result = RunnerResult(code = 0, logs, code),
                        !.pc = "done"]
    /\ UNCHANGED <<loadVars, sysVars, ensureVars>>

NextRunner == RunnerScan \/ RunnerInvoke \/ RunnerReport

SpecRunner == InitRunner /\ [][NextRunner]_vars

(***************************************************************************)
(* _ensure_job_records alone, called again and again for one pipeline.     *)
(* The rows that exist before the first call are those a caller created:   *)
(* the handlers create one per job of config.jobs, a direct caller of      *)
(* run_pipeline (tests/unit/orchestrator) any of them.                     *)
(***************************************************************************)
PlainDoc(jobKeys) == [jobs |-> jobKeys, has_workflow |-> FALSE, workflow |-> <<>>]

InitEnsure ==
    /\ InitLoadIdle
    /\ ensured = NoDeps
    /\ ensureCalls = 0
    /\ pipelines = CreatePipeline(<<>>, "c1", 1, 1)
    /\ statusLog = LogCreate(<<>>)
    /\ retryOf = CreatedBy(<<>>, 1, 0)
    /\ triggers = <<>>
    /\ workspaces = {1}
    /\ \E order \in JobKeyOrders \ {<<>>}, created \in JobKeyOrders :
          /\ jobs = CreateJobs(<<>>, 1, created, 1)
          /\ runs = (1 :> NewRun(LoadPipelineConfig(PlainDoc(order)), 1))

\* fmg/orchestrator/__init__.py:65-66, once more for the same pipeline.
EnsureCall ==
    /\ ensureCalls < MaxEnsure
    /\ LET e == EnsureJobRecords(jobs, 1, ExecutionOrder(runs[1].config))
       IN  /\ jobs' = e.jobs
           /\ ensured' = e.job_ids
    /\ ensureCalls' = ensureCalls + 1
    /\ UNCHANGED <<pipelines, runs, workspaces, statusLog, retryOf, triggers>>
    /\ UNCHANGED <<loadVars, runner>>

\* fmg/orchestrator/__init__.py:73-75: a run marks an ensured job running.
EnsureJobProgress ==
    /\ ensureCalls >= 1
    /\ \E name \in DOMAIN ensured :
          /\ jobs[ensured[name]].status = "pending"
          /\ jobs' = UpdateJobStatus(jobs, ensured[name], "running", Now)
    /\ UNCHANGED <<pipelines, runs, workspaces, statusLog>>
    /\ UNCHANGED <<retryOf, triggers, loadVars, ensureVars, runner>>

NextEnsure == EnsureCall \/ EnsureJobProgress

SpecEnsure == InitEnsure /\ [][NextEnsure]_vars

(***************************************************************************)
(* run_pipeline called directly (tests/unit/orchestrator): the caller has  *)
(* created two pipelines and their job rows and runs both on the same      *)
(* workflow, the first with a reporter whose calls return and a workspace  *)
(* that can be removed, the second with no reporter or one that may raise  *)
(* and a workspace that may be missing or may resist removal; a third      *)
(* invocation names a pipeline that is not in the store.                   *)
(***************************************************************************)
RunConfig == LoadPipelineConfig(DocThree)

AbsentPipeline == 3

InitRun ==
    /\ InitLoadIdle
    /\ InitEnsureIdle
    /\ pipelines = CreatePipeline(CreatePipeline(<<>>, "c1", 1, 1), "c1", 1, 1)
    /\ jobs = CreateJobs(CreateJobs(<<>>, 1, RunConfig.jobs, 1), 2, RunConfig.jobs, 1)
    /\ statusLog = LogCreate(LogCreate(<<>>))
    /\ retryOf = CreatedBy(<<>>, 2, 0)
    /\ triggers = <<>>
    /\ \E observer \in {"none", "faulty"}, rmtree \in {"ok", "fails"},
          present \in BOOLEAN :
          /\ workspaces = {1, AbsentPipeline} \cup (IF present THEN {2} ELSE {})
          /\ runs = (1 :> NewRun(RunConfig, 1))
                    @@ (2 :> [NewRun(RunConfig, 2) EXCEPT !.observer = observer,
                                                           !.rmtree = rmtree])
                    @@ (AbsentPipeline :> NewRun(RunConfig, AbsentPipeline))

NextRun == RunStep

SpecRun == InitRun /\ [][NextRun]_vars

(***************************************************************************)
(* Properties of loading (checked under SpecLoad)                          *)
(***************************************************************************)
LoadDone == loadPc = "done"

Declared == Range(doc.jobs)

\* The position of a job in a sequence of distinct jobs, 0 when absent.
Position(order, job) ==
    IF job \in Range(order) THEN CHOOSE i \in 1..Len(order) : order[i] = job ELSE 0

\* C3. For every configuration that loads, every job D that a job J requires
\* (in the dependencies of the loaded definition) stands before J in the
\* resolved order.
C3_OrderIsTopological ==
    (LoadDone /\ loaded.ok) =>
        \A j \in DOMAIN loaded.dependencies :
            \A d \in loaded.dependencies[j] :
                /\ Position(loaded.job_order, d) > 0
                /\ Position(loaded.job_order, d) < Position(loaded.job_order, j)

\* A load that had to reorder: some job requires a job declared after it.
C3_Witness ==
    /\ LoadDone
    /\ loaded.ok
    /\ loaded.job_order # doc.jobs
    /\ \E j \in DOMAIN loaded.dependencies : Cardinality(loaded.dependencies[j]) = 2

\* The jobs reachable from a job along requires edges (three names: paths
\* of up to three edges).
Requires(deps, S) == UNION {deps[x] : x \in S \cap DOMAIN deps}

Descendants(deps, j) ==
    LET one == Requires(deps, {j})
        two == one \cup Requires(deps, one)
    IN  two \cup Requires(deps, two)

OnCycle(deps, j) == j \in Descendants(deps, j)

HasCycle(deps) == \E j \in DOMAIN deps : OnCycle(deps, j)

\* The jobs no order can place: on a cycle, requiring an undeclared name, or
\* requiring such a job, directly or not.
Unorderable(deps) ==
    {j \in DOMAIN deps :
        \E x \in Descendants(deps, j) \cup {j} :
            (x \notin DOMAIN deps) \/ OnCycle(deps, x)}

\* The dependencies of a stuck job that are still unresolved when sorting stops.
UnmetDeps(deps, j) == deps[j] \ (DOMAIN deps \ Unorderable(deps))

ListedJobs == [i \in 1..Len(loaded.unresolved) |-> loaded.unresolved[i].job]

CycleLoaded == LoadDone /\ dependencies # NoDeps /\ HasCycle(dependencies)

CycleFails ==
    /\ ~loaded.ok
    /\ loaded.error = "circular_or_unsatisfied"
    /\ loaded.job_order = <<>>
    /\ IsInjective(ListedJobs)
    /\ Range(ListedJobs) = Unorderable(dependencies)

\* C4, as stated. Every configuration whose dependency edges contain a cycle
\* fails with a configuration error that lists the jobs that could not be
\* ordered, each with its unmet dependencies, and produces no order.
C4_ListsUnmetOnly ==
    CycleLoaded =>
        /\ CycleFails
        /\ \A i \in 1..Len(loaded.unresolved) :
              loaded.unresolved[i].deps =
                  UnmetDeps(dependencies, loaded.unresolved[i].job)

\* C4, amended. Every configuration whose dependency edges contain a cycle
\* (a job requiring itself included) fails with a configuration error that
\* lists exactly the jobs that could not be ordered, each with its whole
\* requires set, of which at least one is unmet, and produces no order.
C4_CycleFailsListingRequires ==
    CycleLoaded =>
        /\ CycleFails
        /\ \A i \in 1..Len(loaded.unresolved) :
              /\ loaded.unresolved[i].deps = dependencies[loaded.unresolved[i].job]
              /\ UnmetDeps(dependencies, loaded.unresolved[i].job) # {}

\* A cycle of two with a third job resolved before sorting stops, and a
\* stuck job whose listed requires hold that resolved job.
C4_Witness ==
    /\ CycleLoaded
    /\ ~loaded.ok
    /\ Len(loaded.unresolved) = 2
    /\ \E i \in 1..2 :
          UnmetDeps(dependencies, loaded.unresolved[i].job) # loaded.unresolved[i].deps

\* C5, as stated. Loading fails whenever the workflow job list names a job
\* that is not declared under jobs, or some requires list names one.
NamesUndeclared ==
    /\ doc.has_workflow
    /\ \E i \in 1..Len(doc.workflow) :
          \/ doc.workflow[i].job \notin Declared
          \/ ~(doc.workflow[i].requires \subseteq Declared)

C5_UndeclaredFails == (LoadDone /\ NamesUndeclared) => ~loaded.ok

(***************************************************************************)
(* Properties of runs, pushes and retries (checked under Spec)             *)
(***************************************************************************)
\* The job rows of a pipeline with a given name, and its status when there
\* is exactly one.
JobRows(p, name) ==
    {i \in DOMAIN jobs : jobs[i].pipeline_id = p /\ jobs[i].job_name = name}

JobRow(p, name) == CHOOSE i \in JobRows(p, name) : TRUE

HasStatus(p, name, status) ==
    /\ Cardinality(JobRows(p, name)) = 1
    /\ jobs[JobRow(p, name)].status = status

\* The order resolved for a submitted run, and what the runner answered.
ResolvedOrder(p) == runs[p].config.job_order

Returned(p) == p \in DOMAIN runs /\ runs[p].pc = "done"

ReportedSuccess(c) == ~c.result.raised /\ c.result.success

ReportedFailure(c) == ~c.result.raised /\ ~c.result.success

Calls(p, name) == {i \in 1..Len(runs[p].calls) : runs[p].calls[i].job = name}

SucceededFor(p, name) ==
    /\ Calls(p, name) # {}
    /\ \A i \in Calls(p, name) : ReportedSuccess(runs[p].calls[i])

FailedFor(p, name) ==
    \E i \in Calls(p, name) : ReportedFailure(runs[p].calls[i])

FailsAt(p, k) ==
    /\ k < Len(ResolvedOrder(p))
    /\ FailedFor(p, ResolvedOrder(p)[k])
    /\ \A i \in 1..(k - 1) : SucceededFor(p, ResolvedOrder(p)[i])

\* C1. For every run that has returned and every job K of its resolved
\* order that is not last: if the runner reported failure for K and success
\* for every job before K, then every job before K has status success, K
\* has status failure, every job after K has status skipped and the
\* pipeline has status failure.
C1_FailureSkipsRest ==
    \A p \in DOMAIN runs :
        \A k \in 1..Len(ResolvedOrder(p)) :
            (Returned(p) /\ FailsAt(p, k)) =>
                /\ \A i \in 1..(k - 1) : HasStatus(p, ResolvedOrder(p)[i], "success")
                /\ HasStatus(p, ResolvedOrder(p)[k], "failure")
                /\ \A i \in (k + 1)..Len(ResolvedOrder(p)) :
                      HasStatus(p, ResolvedOrder(p)[i], "skipped")
                /\ pipelines[p].status = "failure"

\* A returned run of three jobs whose second job failed after the first
\* succeeded.
C1_Witness ==
    \E p \in DOMAIN runs :
        /\ Returned(p)
        /\ Len(ResolvedOrder(p)) = 3
        /\ FailsAt(p, 2)
        /\ HasStatus(p, ResolvedOrder(p)[3], "skipped")

AllReportedSuccess(p) ==
    \A i \in 1..Len(runs[p].calls) : ReportedSuccess(runs[p].calls[i])

CalledJobs(p) == [i \in 1..Len(runs[p].calls) |-> runs[p].calls[i].job]

\* C2. For every run that has returned in which the runner reported success
\* every time it was invoked: the pipeline has status success, every job of
\* the resolved order has status success, the runner was invoked once per
\* job in resolved order, and each job's log is the output returned for it.
C2_AllSucceed ==
    \A p \in DOMAIN runs :
        (Returned(p) /\ AllReportedSuccess(p)) =>
            /\ pipelines[p].status = "success"
            /\ CalledJobs(p) = ResolvedOrder(p)
            /\ \A i \in 1..Len(ResolvedOrder(p)) :
                  /\ HasStatus(p, ResolvedOrder(p)[i], "success")
                  /\ i <= Len(runs[p].calls)
                  /\ jobs[JobRow(p, ResolvedOrder(p)[i])].log =
                         runs[p].calls[i].result.output

\* A returned run of three jobs, resolved into another order than declared,
\* all of which the runner reported successful.
C2_Witness ==
    \E p \in DOMAIN runs :
        /\ Returned(p)
        /\ AllReportedSuccess(p)
        /\ Len(runs[p].calls) = 3
        /\ ResolvedOrder(p) # runs[p].config.jobs

\* The status changes written to one pipeline row, as pairs.
Changes(log) == {<<log[i], log[i + 1]>> : i \in 1..(Len(log) - 1)}

RunChanges ==
    {<<"pending", "running">>, <<"running", "success">>, <<"running", "failure">>}

LogIsStatus ==
    /\ DOMAIN statusLog = DOMAIN pipelines
    /\ \A p \in DOMAIN pipelines :
          pipelines[p].status = statusLog[p][Len(statusLog[p])]

\* C6, as stated. A pipeline's status changes only along pending->running,
\* running->success or running->failure.
C6_OnlyRunChanges ==
    /\ LogIsStatus
    /\ \A p \in DOMAIN statusLog : Changes(statusLog[p]) \subseteq RunChanges

\* C6, amended. A pipeline's status changes only along pending->running,
\* running->success, running->failure or, for a pipeline whose setup failed
\* in the push or retry handler and which is never run, pending->failure;
\* a pipeline in success or failure never changes status again.
C6_StatusChanges ==
    /\ LogIsStatus
    /\ \A p \in DOMAIN statusLog :
          \/ /\ statusLog[p] = <<"pending", "failure">>
             /\ p \notin DOMAIN runs
          \/ /\ Changes(statusLog[p]) \subseteq RunChanges
             /\ Len(statusLog[p]) <= 3

\* One pipeline failed in its handler, another run to success.
C6_Witness ==
    /\ \E p \in DOMAIN statusLog : statusLog[p] = <<"pending", "failure">>
    /\ \E p \in DOMAIN statusLog : statusLog[p] = <<"pending", "running", "success">>

JobChanges ==
    {<<"pending", "running">>, <<"running", "success">>,
     <<"running", "failure">>, <<"pending", "skipped">>}

SiblingFailed(i) ==
    \E j \in DOMAIN jobs :
        /\ j # i
        /\ jobs[j].pipeline_id = jobs[i].pipeline_id
        /\ jobs[j].status = "failure"

JobChangeOk ==
    /\ DOMAIN jobs \subseteq DOMAIN jobs'
    /\ \A i \in DOMAIN jobs :
          jobs'[i].status # jobs[i].status =>
              /\ <<jobs[i].status, jobs'[i].status>> \in JobChanges
              /\ jobs'[i].status = "skipped" => SiblingFailed(i)

\* C7. In every step a job row's status stays or changes along
\* pending->running, running->success, running->failure or pending->skipped;
\* it changes to skipped only when a job of the same pipeline is already
\* marked failure; a job in success, failure or skipped never changes.
C7_JobStatusChanges == [][JobChangeOk]_vars

\* A pipeline with one job succeeded, one failed and one skipped.
C7_Witness ==
    \E p \in DOMAIN runs :
        /\ Len(ResolvedOrder(p)) = 3
        /\ HasStatus(p, ResolvedOrder(p)[1], "success")
        /\ HasStatus(p, ResolvedOrder(p)[2], "failure")
        /\ HasStatus(p, ResolvedOrder(p)[3], "skipped")

RunningJobs(p) ==
    {i \in DOMAIN jobs : jobs[i].pipeline_id = p /\ jobs[i].status = "running"}

AtMostOneRunning ==
    \A p \in DOMAIN pipelines : Cardinality(RunningJobs(p)) <= 1

PredecessorsSucceeded(i) ==
    LET p     == jobs[i].pipeline_id
        order == ResolvedOrder(p)
        k     == Position(order, jobs[i].job_name)
    IN  /\ p \in DOMAIN runs
        /\ k > 0
        /\ \A m \in 1..(k - 1) : HasStatus(p, order[m], "success")

SequentialStep ==
    /\ AtMostOneRunning
    /\ AtMostOneRunning'
    /\ \A i \in DOMAIN jobs :
          (jobs[i].status # "running" /\ jobs'[i].status = "running") =>
              PredecessorsSucceeded(i)

\* C8. Before and after every step at most one job of a pipeline has status
\* running, and a step marks a job running only when every job before it in
\* the resolved order already has status success.
C8_Sequential == [][SequentialStep]_vars

\* The last of three jobs is running, the two before it have succeeded.
C8_Witness ==
    \E p \in DOMAIN runs :
        /\ Len(ResolvedOrder(p)) = 3
        /\ HasStatus(p, ResolvedOrder(p)[3], "running")
        /\ HasStatus(p, ResolvedOrder(p)[1], "success")
        /\ HasStatus(p, ResolvedOrder(p)[2], "success")

Finished(p) == pipelines[p].status \notin RESTRICTED_STATUSES

JobsOf(js, p) == {i \in DOMAIN js : js[i].pipeline_id = p}

\* The rows that exist are left as they are.
RowsKept ==
    /\ \A p \in DOMAIN pipelines : p \in DOMAIN pipelines' /\ pipelines'[p] = pipelines[p]
    /\ \A i \in DOMAIN jobs : i \in DOMAIN jobs' /\ jobs'[i] = jobs[i]

\* A run that is started is for a new pipeline row and only new job rows.
StartsOnNewRows ==
    \A q \in DOMAIN runs' \ DOMAIN runs :
        /\ q \notin DOMAIN pipelines
        /\ q \in DOMAIN pipelines'
        /\ JobsOf(jobs', q) \cap DOMAIN jobs = {}
        /\ JobsOf(jobs', q) # {}
        /\ \A i \in DOMAIN jobs' \ DOMAIN jobs : jobs'[i].pipeline_id = q

\* A finished pipeline, the only kind a retry is served for, and its job
\* rows are never written again, by the retry or by the run it starts.
FinishedKept ==
    \A p \in DOMAIN pipelines :
        Finished(p) =>
            /\ pipelines'[p] = pipelines[p]
            /\ \A i \in JobsOf(jobs, p) : jobs'[i] = jobs[i]
            /\ JobsOf(jobs', p) = JobsOf(jobs, p)

\* A step of the retry handler that got as far as creating a row; one that
\* stopped before (fetch or configuration failure) changes nothing at all.
RetryStep ==
    /\ Len(retryOf') > Len(retryOf)
    /\ retryOf'[Len(retryOf')] # 0

\* C9. A retry step leaves every existing pipeline and job row as it is and
\* a run it starts is for a pipeline row and job rows that did not exist
\* before; no later step writes to a finished pipeline or its job rows.
C9_RetryFrame ==
    [][(RetryStep => (RowsKept /\ StartsOnNewRows)) /\ FinishedKept]_vars

\* A retry of a failed pipeline whose own run has returned, the original
\* unchanged since it finished.
C9_Witness ==
    \E q \in DOMAIN retryOf :
        /\ retryOf[q] # 0
        /\ Returned(q)
        /\ pipelines[q].status = "success"
        /\ pipelines[retryOf[q]].status = "failure"
        /\ Returned(retryOf[q])

(***************************************************************************)
(* Properties of ensuring job rows (checked under SpecEnsure)              *)
(***************************************************************************)
RowsNamed(js, p, name) ==
    {i \in DOMAIN js : js[i].pipeline_id = p /\ js[i].job_name = name}

EnsuredOrder == ExecutionOrder(runs[1].config)

EnsureStep == ensureCalls' = ensureCalls + 1

\* What one call of _ensure_job_records leaves behind.
EnsureEffect ==
    /\ \A i \in DOMAIN jobs : i \in DOMAIN jobs' /\ jobs'[i] = jobs[i]
    /\ \A i \in DOMAIN jobs' \ DOMAIN jobs :
          /\ jobs'[i].pipeline_id = 1
          /\ jobs'[i].status = "pending"
          /\ jobs'[i].job_name \in Range(EnsuredOrder)
          /\ RowsNamed(jobs, 1, jobs'[i].job_name) = {}
    /\ \A name \in JobNames :
          Cardinality(RowsNamed(jobs', 1, name)) =
              IF name \in Range(EnsuredOrder) THEN 1
              ELSE Cardinality(RowsNamed(jobs, 1, name))
    /\ \A name \in Range(EnsuredOrder) :
          /\ name \in DOMAIN ensured'
          /\ ensured'[name] \in RowsNamed(jobs', 1, name)
    /\ ensureCalls >= 1 => jobs' = jobs

\* C10. Every call of ensure-job-records for a pipeline whose rows were
\* created one per job leaves the existing rows as they are, creates a
\* pending row only for a job of the order that has none, returns for every
\* job of the order the one row of that name, and from the second call on
\* creates nothing: there is exactly one row per pipeline and job name.
C10_EnsureNoDuplicates == [][EnsureStep => EnsureEffect]_vars

\* Two calls made for an order of three jobs: one of the rows is running,
\* the last row has not started, and there is exactly one row per job.
C10_Witness ==
    /\ ensureCalls = 2
    /\ Len(EnsuredOrder) = 3
    /\ Len(jobs) = 3
    /\ jobs[3].start_time = Null
    /\ \E i \in DOMAIN jobs : jobs[i].status = "running"
    /\ \A name \in Range(EnsuredOrder) :
          /\ Cardinality(RowsNamed(jobs, 1, name)) = 1
          /\ ensured[name] \in RowsNamed(jobs, 1, name)

(***************************************************************************)
(* Properties of one invocation of run_pipeline (checked under SpecRun)    *)
(***************************************************************************)
PipelineExists(p) == p \in DOMAIN pipelines

CleanupAttempted(p) == runs[p].cleanup # "none"

PipelineFinal(p) == pipelines[p].status \in {"success", "failure"}

\* C11, as stated. Every invocation that has ended has attempted to delete
\* its workspace, the pipeline record present or absent; an attempt that
\* found the directory missing or could not delete it leaves the records of
\* a finished run.
C11_AlwaysAttemptsCleanup ==
    \A p \in DOMAIN runs :
        Returned(p) =>
            /\ CleanupAttempted(p)
            /\ PipelineExists(p) => PipelineFinal(p)

\* The steps of one invocation.
RunOf(p) ==
    \/ RunBegin(p)
    \/ EnsureJobs(p)
    \/ JobStart(p)
    \/ InvokeRunner(p)
    \/ StoreStatus(p)
    \/ MarkSuccess(p)
    \/ SkipJob(p)
    \/ MarkFailure(p)
    \/ CleanupWorkspace(p)

LastCall(p) == runs[p].calls[Len(runs[p].calls)]

Raised(c) == c.result.raised

OutcomeRecorded(p) ==
    /\ runs[p].calls # <<>>
    /\ pipelines[p].status = IF AllReportedSuccess(p) THEN "success" ELSE "failure"
    /\ \A i \in 1..Len(ResolvedOrder(p)) :
          \E st \in {"success", "failure", "skipped"} :
              HasStatus(p, ResolvedOrder(p)[i], st)
    /\ HasStatus(p, LastCall(p).job,
                 IF ReportedSuccess(LastCall(p)) THEN "success" ELSE "failure")

\* C12. An invocation for a pipeline that exists can always take its next
\* step until it has returned, whatever the runner reported or raised, and
\* when it has returned the outcome is in the records: the pipeline is
\* success when every job succeeded and failure otherwise, every job of the
\* order is success, failure or skipped, and the job run last carries the
\* outcome of its invocation.
C12_ReturnsWithOutcomeRecorded ==
    \A p \in DOMAIN runs :
        PipelineExists(p) =>
            /\ runs[p].pc # "done" => ENABLED RunOf(p)
            /\ Returned(p) => OutcomeRecorded(p)

\* Two returned invocations: one whose runner raised, one whose runner
\* reported a failure for the last of three jobs.
C12_Witness ==
    /\ Returned(1) /\ Returned(2)
    /\ Raised(LastCall(2))
    /\ ReportedFailure(LastCall(1))
    /\ Len(runs[1].calls) = 3

\* The invocation returned after k runner calls, all but the last successful.
StoppedAt(p, k) ==
    /\ Returned(p)
    /\ Len(runs[p].calls) = k
    /\ \A i \in 1..(k - 1) : ReportedSuccess(runs[p].calls[i])

Row(p, name) == jobs[JobRow(p, name)]

LastReport(p) == runs[p].reports[Len(runs[p].reports)]

\* The records a failure of job number k leaves, whatever its kind.
FailureRecords(p, k) ==
    LET order == ResolvedOrder(p)
    IN  /\ HasStatus(p, order[k], "failure")
        /\ Row(p, order[k]).end_time # Null
        /\ \A i \in (k + 1)..Len(order) :
              /\ HasStatus(p, order[i], "skipped")
              /\ Row(p, order[i]).log = Null
        /\ pipelines[p].status = "failure"
        /\ runs[p].observer # "none" =>
              /\ LastReport(p).state = "failure"
              /\ LastReport(p).job = order[k]

\* Two pipelines of the same workflow agree on every record but the log of
\* one job.
SameButLog(p, q, name) ==
    /\ pipelines[p].status = pipelines[q].status
    /\ pipelines[p].end_time = pipelines[q].end_time
    /\ \A n \in Range(ResolvedOrder(p)) :
          /\ Row(p, n).status = Row(q, n).status
          /\ Row(p, n).start_time = Row(q, n).start_time
          /\ Row(p, n).end_time = Row(q, n).end_time
          /\ n # name => Row(p, n).log = Row(q, n).log

\* C13. An invocation whose runner raised for job K, after success for the
\* jobs before it, returns with K failure, the later jobs skipped, the
\* pipeline failure and a failure notification naming K, as one whose runner
\* reported a failure for K does; the records of two such invocations of the
\* same workflow differ only in K's log, which is the synthetic line for the
\* one and the runner's output for the other.
C13_RaiseIsFailure ==
    \A p \in {1, 2}, q \in {1, 2}, k \in 1..Len(RunConfig.job_order) :
        /\ (StoppedAt(p, k) /\ Raised(LastCall(p))) =>
              /\ FailureRecords(p, k)
              /\ Row(p, ResolvedOrder(p)[k]).log = SyntheticLog(LastCall(p).result.output)
        /\ (StoppedAt(q, k) /\ ReportedFailure(LastCall(q))) =>
              /\ FailureRecords(q, k)
              /\ Row(q, ResolvedOrder(q)[k]).log = LastCall(q).result.output
        /\ (/\ StoppedAt(p, k) /\ Raised(LastCall(p))
            /\ StoppedAt(q, k) /\ ReportedFailure(LastCall(q))) =>
              SameButLog(p, q, ResolvedOrder(p)[k])

\* The runner raised for the second job of one invocation and reported a
\* failure for the second job of the other; both have returned.
C13_Witness ==
    /\ StoppedAt(1, 2) /\ Raised(LastCall(1))
    /\ StoppedAt(2, 2) /\ ReportedFailure(LastCall(2))
    /\ HasStatus(1, ResolvedOrder(1)[3], "skipped")

\* The runner gave two invocations the same answers, call for call, as far
\* as both went.
SameAnswers(p, q) ==
    \A i \in 1..Len(runs[p].calls) :
        i <= Len(runs[q].calls) =>
            runs[p].calls[i].result = runs[q].calls[i].result

SameRecords(p, q) ==
    /\ pipelines[p].status = pipelines[q].status
    /\ pipelines[p].start_time = pipelines[q].start_time
    /\ pipelines[p].end_time = pipelines[q].end_time
    /\ \A n \in JobNames :
          /\ Cardinality(JobRows(p, n)) = Cardinality(JobRows(q, n))
          /\ JobRows(p, n) # {} =>
                /\ Cardinality(JobRows(p, n)) = 1
                /\ Row(p, n).status = Row(q, n).status
                /\ Row(p, n).log = Row(q, n).log
                /\ Row(p, n).start_time = Row(q, n).start_time
                /\ Row(p, n).end_time = Row(q, n).end_time

SomeNotificationRaised(p) ==
    \E i \in 1..Len(runs[p].reports) : runs[p].reports[i].raised

\* C14. Two invocations on the same workflow that have returned and whose
\* runner gave the same answers made the same runner calls in the same order
\* and left the same status, log and timestamps on the pipeline and on every
\* job, whichever notifications raised in either and whether or not a
\* reporter was bound; an invocation in which notifications raised still
\* returns with its outcome recorded.
C14_ObserverFaultsChangeNothing ==
    \A p \in {1, 2}, q \in {1, 2} :
        /\ (Returned(p) /\ Returned(q) /\ SameAnswers(p, q)) =>
              /\ runs[p].calls = runs[q].calls
              /\ SameRecords(p, q)
        /\ Returned(p) => OutcomeRecorded(p)

\* Both invocations returned after the same answers, a failure of the
\* second job; in one of them the start and the final notification raised,
\* in the other none did.
C14_Witness ==
    /\ Returned(1) /\ Returned(2)
    /\ SameAnswers(1, 2)
    /\ Len(runs[1].calls) = 2
    /\ ~SomeNotificationRaised(1)
    /\ Len(runs[2].reports) = 2
    /\ \A i \in 1..2 : runs[2].reports[i].raised

ObserverBound(p) == runs[p].observer # "none"

\* What the observer was told, whether or not the call raised.
Notification(p, i) ==
    [state |-> runs[p].reports[i].state,
     job   |-> runs[p].reports[i].job,
     count |-> runs[p].reports[i].count]

JobStarted(p) ==
    \E i \in DOMAIN jobs : jobs[i].pipeline_id = p /\ jobs[i].status # "pending"

FinalNotificationOk(p) ==
    /\ PipelineFinal(p)
    /\ runs[p].calls # <<>>
    /\ IF AllReportedSuccess(p)
       THEN /\ pipelines[p].status = "success"
            /\ Notification(p, 2) =
                  [state |-> "success", job |-> Null,
                   count |-> Len(ResolvedOrder(p))]
       ELSE /\ pipelines[p].status = "failure"
            /\ Notification(p, 2) =
                  [state |-> "failure", job |-> LastCall(p).job, count |-> 0]
            /\ HasStatus(p, LastCall(p).job, "failure")

\* C15. For every invocation on an existing pipeline with a reporter bound:
\* the start (pending) notification is sent once the pipeline is marked
\* running and before any job is started; exactly one more notification
\* follows, once the final status is stored: success with the number of
\* jobs when all succeeded, otherwise failure naming the failed job; the
\* invocation has sent both when it returns and never sends a third.
C15_StartThenOneFinal ==
    \A p \in DOMAIN runs :
        (PipelineExists(p) /\ ObserverBound(p)) =>
            /\ runs[p].reports = <<>> <=> runs[p].pc = "queued"
            /\ runs[p].reports = <<>> => (pipelines[p].status = "pending" /\ ~JobStarted(p))
            /\ runs[p].reports # <<>> =>
                  /\ Notification(p, 1) = [state |-> "pending", job |-> Null, count |-> 0]
                  /\ pipelines[p].status # "pending"
            /\ Len(runs[p].reports) <= 2
            /\ Len(runs[p].reports) = 2 <=> runs[p].pc \in {"cleanup", "done"}
            /\ Len(runs[p].reports) = 2 => FinalNotificationOk(p)
            /\ PipelineFinal(p) => runs[p].pc \in {"cleanup", "done"}

\* A returned invocation on the order build, lint, test whose first job
\* failed: the observer got the start notification, then a failure naming
\* build; and one, with a reporter that may raise, all of whose jobs
\* succeeded.
C15_Witness ==
    /\ Returned(1)
    /\ Len(runs[1].calls) = 1
    /\ Notification(1, 2) = [state |-> "failure", job |-> "build", count |-> 0]
    /\ Returned(2)
    /\ ObserverBound(2)
    /\ Notification(2, 2) = [state |-> "success", job |-> Null, count |-> 3]

(***************************************************************************)
(* Properties of pipeline setup (checked under SpecTrigger)                *)
(***************************************************************************)
\* The pipeline rows the k-th recorded handler invocation created.
CreatedByTrigger(k) ==
    (triggers[k].base + 1) ..
        (IF k < Len(triggers) THEN triggers[k + 1].base ELSE Len(pipelines))

Pushes == {k \in DOMAIN triggers : triggers[k].kind = "push"}

\* The pushes whose fetch delivered a tree and the files of that tree whose
\* configuration does not load; file 0 stands for a tree without any
\* configuration file.
FailedLoads ==
    {<<k, i>> \in Pushes \X (0..MaxPipelines) :
        /\ triggers[k].fetch_ok
        /\ \/ i = 0 /\ triggers[k].files = <<>>
           \/ /\ i \in DOMAIN triggers[k].files
              /\ ~LoadPipelineConfig(triggers[k].files[i].doc).ok}

\* The row the push created for that file.
PipelineFor(k, i) == triggers[k].base + (IF i = 0 THEN 1 ELSE i)

SetupFailed(p) ==
    /\ p \in DOMAIN pipelines
    /\ pipelines[p].status = "failure"
    /\ JobsOf(jobs, p) = {}
    /\ p \notin DOMAIN runs

C17_FetchFailureRecorded ==
    \A k \in Pushes :
        ~triggers[k].fetch_ok =>
            \E p \in CreatedByTrigger(k) :
                pipelines[p].status = "failure" /\ JobsOf(jobs, p) = {}

\* The handler invocation that created pipeline row p and the file of the
\* fetched tree the row was created for (no file when the tree had none).
TriggerOf(p) == CHOOSE k \in DOMAIN triggers : p \in CreatedByTrigger(k)

FileOf(p) ==
    LET t == triggers[TriggerOf(p)]
    IN  IF t.files = <<>> THEN <<>>
        ELSE IF t.kind = "push" THEN <<t.files[p - t.base]>>
        ELSE <<t.files[1]>>

ConfigLoadFailed(p) ==
    \/ FileOf(p) = <<>>
    \/ ~LoadPipelineConfig(FileOf(p)[1].doc).ok

FetchFailed(p) == ~triggers[TriggerOf(p)].fetch_ok

\* shutil.copytree of the fetched tree into the pipeline's workspace failed.
WorkspaceFailed(p) ==
    /\ ~ConfigLoadFailed(p)
    /\ ~FileOf(p)[1].copy_ok

\* start_time is written only by the update that marks the job running.
StartedJobs(p) == {i \in JobsOf(jobs, p) : jobs[i].start_time # Null}

FailedPipelines == {p \in DOMAIN pipelines : pipelines[p].status = "failure"}

HasStartedFailedJob(p) ==
    \E i \in StartedJobs(p) : jobs[i].status = "failure"

\* C18 as stated: a pipeline is in failure with none of its jobs ever marked
\* running only when its configuration did not load or its fetch failed;
\* every other failed pipeline has a started job row in failure.
C18_OnlyConfigOrFetch ==
    \A p \in FailedPipelines :
        IF StartedJobs(p) = {}
        THEN ConfigLoadFailed(p) \/ FetchFailed(p)
        ELSE HasStartedFailedJob(p)

\* C18, amended: a pipeline is in failure with none of its jobs ever marked
\* running only when its configuration did not load or the copy of the
\* fetched tree into its workspace failed; every other failed pipeline has
\* a started job row in failure.
C18_OnlySetupFailures ==
    \A p \in FailedPipelines :
        IF StartedJobs(p) = {}
        THEN ConfigLoadFailed(p) \/ WorkspaceFailed(p)
        ELSE HasStartedFailedJob(p)

\* One pipeline failed by its run, with a started job in failure, and one
\* failed in setup because its workspace could not be prepared.
C18_Witness ==
    /\ \E p \in FailedPipelines : HasStartedFailedJob(p)
    /\ \E p \in FailedPipelines : StartedJobs(p) = {} /\ WorkspaceFailed(p)

(***************************************************************************)
(* Properties of the rows a handler leaves for a submitted run (checked    *)
(* under Spec)                                                             *)
(***************************************************************************)
\* The runs a handler has submitted and no worker has begun.
Submitted == {p \in DOMAIN runs : runs[p].pc = "queued"}

FreshRow(row) ==
    /\ row.status = "pending"
    /\ row.start_time = Null
    /\ row.end_time = Null
    /\ row.log = Null

FreshRows(p) ==
    /\ \A name \in Range(runs[p].config.jobs) :
          /\ Cardinality(JobRows(p, name)) = 1
          /\ FreshRow(Row(p, name))
    /\ \A i \in JobsOf(jobs, p) : jobs[i].job_name \in Range(runs[p].config.jobs)

\* C19: when a push or a retry has created a pipeline for a configuration
\* that loaded and submitted its run, then until the run begins the
\* pipeline has exactly one job row for each job of the configuration,
\* pending, without start time, end time or log, and no row for any other
\* job name.
C19_FreshRowsAtSubmission ==
    \A p \in Submitted : FreshRows(p)

\* A retry has submitted the run of a new pipeline for the three-job
\* configuration while the rows of the retried pipeline keep their results.
C19_Witness ==
    \E p \in Submitted :
        /\ retryOf[p] # 0
        /\ Len(runs[p].config.jobs) = 3
        /\ FreshRows(p)
        /\ \E i \in JobsOf(jobs, retryOf[p]) : jobs[i].status = "failure"

(***************************************************************************)
(* Properties of concurrent runs (checked under Spec)                      *)
(***************************************************************************)
\* run_pipeline executed from start to end on a store that holds nothing
\* but its own pipeline, as row 1, with the job rows its handler created;
\* answers[k] is what the runner answers to the k-th invocation.
\* 70-106: the loop over the order.
RECURSIVE SoloLoop(_, _, _, _, _)
SoloLoop(js, ids, order, answers, k) ==
    IF k > Len(order) \/ k > Len(answers)
    THEN [jobs |-> js, completed |-> order, failed_job |-> Null]
    ELSE LET id == ids[order[k]]
             started == UpdateJobStatus(js, id, "running", Now)
             logged == SetJobLog(started, id, LogFor(answers[k]))
             status == FinalStatus(answers[k])
             stored == UpdateJobStatus(logged, id, status, Null)
         IN  IF ContinuesAfter(status)
             THEN SoloLoop(stored, ids, order, answers, k + 1)
             ELSE [jobs |-> stored, completed |-> SubSeq(order, 1, k - 1),
                   failed_job |-> order[k]]

\* 119-123: the loop that marks the jobs not reached as skipped.
RECURSIVE SoloSkip(_, _, _, _, _)
SoloSkip(js, ids, order, r, k) ==
    IF k > Len(order) THEN js
    ELSE SoloSkip(IF IsSkipped(r, order[k])
                  THEN UpdateJobStatus(js, ids[order[k]], "skipped", Null)
                  ELSE js,
                  ids, order, r, k + 1)

\* 44-139: the pipeline row and the job rows a run leaves when alone.
RunAlone(config, answers) ==
    LET created == CreatePipeline(<<>>, "c1", 1, 1)
        rows    == CreateJobs(<<>>, 1, config.jobs, 1)
        running == UpdatePipelineStatus(created, 1, "running")
        order   == ExecutionOrder(config)
        e       == EnsureJobRecords(rows, 1, order)
        loop    == SoloLoop(e.jobs, e.job_ids, order, answers, 1)
        final   == IF loop.failed_job = Null
                   THEN UpdatePipelineStatus(running, 1, "success")
                   ELSE UpdatePipelineStatus(
                            running, 1, "failure")
    IN  [pipeline |-> final[1],
         jobs |-> IF loop.failed_job = Null THEN loop.jobs
                  ELSE SoloSkip(loop.jobs, e.job_ids, order, loop, 1)]

\* What a record says, apart from the identity of its pipeline.
RunRecord(row) ==
    [status |-> row.status, start_time |-> row.start_time,
     end_time |-> row.end_time]

JobRecord(row) ==
    [job_name |-> row.job_name, status |-> row.status, log |-> row.log,
     start_time |-> row.start_time, end_time |-> row.end_time]

\* The job records of pipeline p in table js, in the order of their ids.
RECURSIVE JobRecords(_, _, _)
JobRecords(js, p, i) ==
    IF i > Len(js) THEN <<>>
    ELSE IF js[i].pipeline_id = p
         THEN <<JobRecord(js[i])>> \o JobRecords(js, p, i + 1)
         ELSE JobRecords(js, p, i + 1)

Answers(p) == [k \in DOMAIN runs[p].calls |-> runs[p].calls[k].result]

\* The records of a returned run are those of the same run, with the same
\* runner answers, executed alone.
FinalAsAlone(p) ==
    LET alone == RunAlone(runs[p].config, Answers(p))
    IN  /\ RunRecord(pipelines[p]) = RunRecord(alone.pipeline)
        /\ JobRecords(jobs, p, 1) = JobRecords(alone.jobs, 1, 1)

\* A step of the run of pipeline p.
StepOfRun(p) == p \in DOMAIN runs /\ runs'[p] # runs[p]

\* The step leaves every record of another pipeline as it was.
OwnRecordsOnly(p) ==
    /\ \A q \in DOMAIN pipelines \ {p} : pipelines'[q] = pipelines[q]
    /\ Len(pipelines') = Len(pipelines)
    /\ \A i \in DOMAIN jobs : jobs[i].pipeline_id # p => jobs'[i] = jobs[i]
    /\ \A i \in DOMAIN jobs' \ DOMAIN jobs : jobs'[i].pipeline_id = p

ReturnedRuns == {p \in DOMAIN runs : runs[p].pc = "done"}

Isolated == \A p \in DOMAIN runs : StepOfRun(p) => OwnRecordsOnly(p)

FinalsAsAlone == \A p \in ReturnedRuns : FinalAsAlone(p)

\* C20: however the runs of distinct pipelines, the pushes and the retries
\* interleave, a step of a run changes only the row of its own pipeline and
\* job rows whose pipeline_id is that pipeline, and once a run has returned
\* the records of its pipeline are those the run leaves when it executes
\* alone with the same runner answers.
C20_RunsIsolated == [][Isolated]_vars /\ []FinalsAsAlone

\* Two pipelines each have a job marked running at the same time, the runs
\* being at different places of their loops.
C20_Witness ==
    \E p, q \in DOMAIN runs :
        /\ p # q
        /\ runs[p].pc = "invoke"
        /\ runs[q].pc = "store_status"
        /\ \E i \in JobsOf(jobs, p) : jobs[i].status = "running"
        /\ \E i \in JobsOf(jobs, q) : jobs[i].status = "running"
        /\ runs[q].idx > 1

(***************************************************************************)
(* Properties of the workspace directories (checked under Spec)            *)
(***************************************************************************)
\* The runs submitted and not yet returned.
InFlight == {p \in DOMAIN runs : runs[p].pc # "done"}

\* In-flight runs have different directories, and each one's directory is
\* there until the run itself removes it.
DistinctWorkspaces ==
    /\ \A p, q \in InFlight : p # q => runs[p].workspace # runs[q].workspace
    /\ \A p \in InFlight : runs[p].workspace \in workspaces

\* A directory disappears only in the cleanup step of the run it was
\* handed to.
DeletedByOwner(w) ==
    \E p \in DOMAIN runs :
        /\ runs[p].workspace = w
        /\ runs[p].pc = "cleanup"
        /\ runs'[p].pc = "done"
        /\ \A q \in DOMAIN runs \ {p} : runs'[q] = runs[q]

\* A directory appears only in the handler step that creates the pipeline
\* row it is named after and submits the run it is handed to.
CreatedByOwner(w) ==
    /\ w \notin DOMAIN pipelines
    /\ w \in DOMAIN pipelines'
    /\ w \notin DOMAIN runs
    /\ w \in DOMAIN runs'
    /\ runs'[w].workspace = w

WorkspaceStep ==
    /\ \A w \in workspaces \ workspaces' : DeletedByOwner(w)
    /\ \A w \in workspaces' \ workspaces : CreatedByOwner(w)

\* C21: in every reachable state of concurrent pushes, retries and runs no
\* two in-flight runs have the same workspace directory, and a directory is
\* created only by the setup of the pipeline that owns it and deleted only
\* by the run of that pipeline.
C21_WorkspacesOwned == [][WorkspaceStep]_vars /\ []DistinctWorkspaces

\* One run has returned and removed its directory while another, in
\* flight, still has its own.
C21_Witness ==
    \E p, q \in DOMAIN runs :
        /\ runs[p].pc = "done"
        /\ runs[p].workspace \notin workspaces
        /\ q \in InFlight
        /\ runs[q].pc \notin {"queued", "ensure"}
        /\ runs[q].workspace \in workspaces

(***************************************************************************)
(* Properties of a retry request (checked under SpecRetry)                 *)
(***************************************************************************)
\* The step serves a retry request for pipeline p.
RetryRequestFor(p) ==
    /\ Len(triggers') = Len(triggers) + 1
    /\ triggers'[Len(triggers')].kind = "retry"
    /\ triggers'[Len(triggers')].of = p

Unfinished(p) == pipelines[p].status \in {"pending", "running"}

NothingDone ==
    /\ pipelines' = pipelines
    /\ jobs' = jobs
    /\ runs' = runs
    /\ workspaces' = workspaces
    /\ statusLog' = statusLog
    /\ ~triggers'[Len(triggers')].fetched

RejectsUnfinished ==
    \A p \in DOMAIN pipelines :
        (RetryRequestFor(p) /\ Unfinished(p)) => NothingDone

\* C22: a retry request for a pipeline that is pending or running creates
\* no pipeline row and no job row, fetches nothing, submits no run and
\* leaves every record as it was.
C22_RetryOfUnfinishedRejected == [][RejectsUnfinished]_vars

\* A retry of a pipeline that is running has just been turned down.
C22_Witness ==
    /\ triggers # <<>>
    /\ LET t == triggers[Len(triggers)]
       IN  /\ t.kind = "retry"
           /\ ~t.fetched
           /\ pipelines[t.of].status = "running"
           /\ t.base = Len(pipelines)

(***************************************************************************)
(* Properties of jobs the workflow does not list (checked under SpecLoad)  *)
(***************************************************************************)
\* The declared jobs that no entry of the workflow's jobs list names.
Omitted ==
    {j \in Declared : \A i \in DOMAIN doc.workflow : doc.workflow[i].job # j}

Occurrences(order, job) == {i \in DOMAIN order : order[i] = job}

HasDependency(j) == loaded.dependencies[j] # {}

\* C25: in every configuration that loads, a job declared under jobs and
\* not named in the workflow's jobs list occurs exactly once in the
\* resolved order, has no dependency, and stands before every job that has
\* one.
C25_OmittedJobsRunFirst ==
    (LoadDone /\ loaded.ok /\ doc.has_workflow) =>
        \A j \in Omitted :
            /\ Cardinality(Occurrences(loaded.job_order, j)) = 1
            /\ loaded.dependencies[j] = {}
            /\ \A k \in DOMAIN loaded.dependencies :
                  HasDependency(k) =>
                      Position(loaded.job_order, j) < Position(loaded.job_order, k)

\* A loaded configuration whose last declared job is not listed and has
\* been moved before a job declared earlier, which requires another.
C25_Witness ==
    /\ LoadDone
    /\ loaded.ok
    /\ doc.has_workflow
    /\ Len(doc.jobs) = 3
    /\ doc.jobs[3] \in Omitted
    /\ HasDependency(doc.jobs[1])
    /\ Position(loaded.job_order, doc.jobs[3]) < Position(loaded.job_order, doc.jobs[1])

(***************************************************************************)
(* Properties of the jobs section (checked under SpecParse)                *)
(***************************************************************************)
Parsed == loadPc = "done"

\* The job declares no image: no docker list, an empty one, or a first
\* entry without image.
LacksImage(body) == body.is_mapping /\ body.docker \in {"absent", "empty", "no_image"}

\* The job has no step: no steps list or an empty one.
LacksSteps(body) ==
    body.is_mapping /\ (~body.steps.is_list \/ body.steps.items = <<>>)

\* The entries before entry i are all well formed.
FirstDefect(i) == \A k \in 1..(i - 1) : ParseJob(doc[k]).ok

\* The errors of the image and steps checks (118-131).
ImageOrStepsError ==
    {"no_docker_image", "docker_without_image", "image_not_string", "no_steps"}

AcceptableStep(raw) ==
    \/ raw.type = "str" /\ Strip(raw.text) = "checkout"
    \/ /\ raw.type = "map"
       /\ raw.size = 1
       /\ raw.key = "run"
       /\ raw.value.type \in {"str", "map"}
       /\ raw.value.text # ""

\* The document is well formed apart from the shapes of its steps.
WellFormedJobs ==
    /\ doc # <<>>
    /\ \A i \in DOMAIN doc :
          /\ doc[i].body.is_mapping
          /\ doc[i].body.docker \in {"", "img"}
          /\ ~LacksSteps(doc[i].body)

AllStepsAcceptable ==
    \A i \in DOMAIN doc :
        \A k \in DOMAIN doc[i].body.steps.items :
            AcceptableStep(doc[i].body.steps.items[k])

\* C24: a document loads exactly when every step is the marker checkout or
\* a single-key run entry with a non-empty command, and no configuration
\* that loads holds a run step whose command is empty.
C24_StepsAcceptedExactly ==
    (Parsed /\ WellFormedJobs) =>
        /\ loaded.ok <=> AllStepsAcceptable
        /\ loaded.ok =>
              \A i \in DOMAIN loaded.specs :
                  \A k \in DOMAIN loaded.specs[i].steps :
                      loaded.specs[i].steps[k].kind = "run" =>
                          loaded.specs[i].steps[k].command # ""

(***************************************************************************)
(* Properties of DockerRunner.run (checked under SpecRunner)               *)
(***************************************************************************)
RunnerReturned == runner.pc = "done"

ValidStep(step) ==
    \/ step.kind = "checkout"
    \/ step.kind = "run" /\ CommandOf(step) # ""

AllStepsValid == \A i \in DOMAIN runner.job.steps : ValidStep(runner.job.steps[i])

\* The commands of the run steps, in step order.
RunCommands ==
    LET steps == SelectSeq(runner.job.steps, LAMBDA st : st.kind = "run")
    IN  [i \in DOMAIN steps |-> CommandOf(steps[i])]

\* The exit status of a command executed by itself.
CommandAlone(text) == ShellRun(Joined(<<text>>, 1), 1, 0, {}).returncode

Failing == {c \in DOMAIN RunCommands : CommandAlone(RunCommands[c]) # 0}

\* C26: for a job whose steps are all valid and an engine that runs, the
\* result is a success exactly when every command exits 0, nothing of a
\* command after the first failing one is executed, and the return code is
\* that of the first failing command, 0 when there is none.
C26_JoinedByAnd ==
    (RunnerReturned /\ AllStepsValid /\ runner.engine = "ok") =>
        /\ runner.result.success = (Failing = {})
        /\ Failing # {} =>
              /\ \A e \in runner.completed.executed : e[1] <= Min(Failing)
              /\ runner.result.return_code = CommandAlone(RunCommands[Min(Failing)])
        /\ Failing = {} => runner.result.return_code = 0

InvalidSteps == {i \in DOMAIN runner.job.steps : ~ValidStep(runner.job.steps[i])}

RejectionLines == {"unsupported", "missing_command"}

LastLine(output) == output[Len(output)]

\* C27: when a step of the job is neither checkout nor run, or is a run
\* step with an empty command, the runner returns a failure whose log ends
\* with a line that says so and names the job, and subprocess.run is never
\* called, whatever run steps precede the step.
C27_InvalidStepNeverRuns ==
    (RunnerReturned /\ InvalidSteps # {}) =>
        /\ runner.result.success = FALSE
        /\ ~runner.invoked
        /\ runner.completed = NoCompleted
        /\ runner.result.output # <<>>
        /\ LastLine(runner.result.output).tag \in RejectionLines
        /\ LastLine(runner.result.output).text = runner.job.name
        /\ LastLine(runner.result.output).tag = "unsupported"
              <=> runner.job.steps[Min(InvalidSteps)].kind # "run"

\* A job whose first step is a run step with a command and whose second
\* step is of an unsupported kind has been refused.
C27_Witness ==
    /\ RunnerReturned
    /\ Len(runner.job.steps) = 2
    /\ ValidStep(runner.job.steps[1])
    /\ runner.job.steps[1].kind = "run"
    /\ runner.job.steps[2].kind = "deploy"
    /\ runner.result.success = FALSE
    /\ ~runner.invoked

\* The log lines of the steps, written without the operators of the
\* runner: the two header lines, a line for every step, and the no-op line
\* of a job without run step.
StepLine(step) ==
    IF step.kind = "checkout" THEN LogLine("checkout", "")
    ELSE LogLine("$", CommandOf(step))

LinesBeforeInvoke ==
    <<LogLine("job", runner.job.name), LogLine("image", runner.job.image)>>
        \o [i \in DOMAIN runner.job.steps |-> StepLine(runner.job.steps[i])]
        \o (IF RunCommands = <<>> THEN <<LogLine("no-op", "")>> ELSE <<>>)

FaultLines == {"binary_not_found", "execution_raised"}

\* C28: the runner never raises; when the docker binary is missing or
\* subprocess.run fails in another way, it returns a result with success
\* false whose output is every log line written so far followed by a line
\* that describes the fault.
C28_EngineFaultIsFailure ==
    /\ ~runner.raised
    /\ (RunnerReturned /\ runner.invoked /\ runner.engine # "ok") =>
          /\ runner.result.success = FALSE
          /\ runner.result.output = Append(LinesBeforeInvoke, LastLine(runner.result.output))
          /\ LastLine(runner.result.output).tag \in FaultLines
          /\ LastLine(runner.result.output).tag = "binary_not_found"
                <=> runner.engine = "missing"

\* A job with a checkout and a run step met a missing docker binary.
C28_Witness ==
    /\ RunnerReturned
    /\ runner.engine = "missing"
    /\ runner.invoked
    /\ Len(runner.job.steps) = 2
    /\ runner.job.steps[1].kind = "checkout"
    /\ runner.job.steps[2].kind = "run"
    /\ Len(runner.result.output) = 5

(***************************************************************************)
(* Properties of a push with several workflow files (checked under         *)
(* SpecTrigger)                                                            *)
(***************************************************************************)
\* The files of the pushes whose tree held more than one workflow file.
PushedFiles ==
    {<<k, i>> \in Pushes \X (1..MaxPipelines) :
        /\ Len(triggers[k].files) > 1
        /\ i \in DOMAIN triggers[k].files}

ConfigOf(f) == LoadPipelineConfig(triggers[f[1]].files[f[2]].doc)

Copied(f) == triggers[f[1]].files[f[2]].copy_ok

\* The file has a pipeline row of its own, created by its push.
OwnPipeline(f) ==
    LET p == PipelineFor(f[1], f[2])
    IN  /\ p \in CreatedByTrigger(f[1])
        /\ pipelines[p].config_path = f[2]

\* The run of the file's pipeline was submitted with the file's
\* configuration, and the pipeline's job rows are those of its jobs.
SubmittedWithOwnJobs(f) ==
    LET p == PipelineFor(f[1], f[2])
    IN  /\ p \in DOMAIN runs
        /\ {jobs[j].job_name : j \in JobsOf(jobs, p)} = Range(runs[p].config.jobs)
        /\ runs[p].config = ConfigOf(f)

PushStep ==
    /\ Len(triggers') = Len(triggers) + 1
    /\ triggers'[Len(triggers')].kind = "push"

\* What the push leaves when no call of the reporter raises.
Unhindered(tree) ==
    LET st0 == HandlerState(pipelines, jobs, workspaces, runs, statusLog)
    IN  IF tree = <<>> THEN PushNoConfig(st0, "c1") ELSE PushFiles(st0, "c1", tree, 1)

AsUnhindered ==
    LET st == Unhindered(triggers'[Len(triggers')].files)
    IN  /\ pipelines' = st.pipelines
        /\ jobs' = st.jobs
        /\ DOMAIN runs' = DOMAIN st.runs
        /\ workspaces' = st.workspaces

\* C29: whatever the status reporter does while a push is set up, the push
\* leaves the pipeline rows and job rows, and submits the runs, that it
\* leaves and submits when every call of the reporter returns.
C29_NotifierFaultSwallowed == [][PushStep => AsUnhindered]_vars

(***************************************************************************)
(* Properties of the resolved order (checked under SpecLoad)               *)
(***************************************************************************)
\* The layers of the loaded dependencies (three names: at most three).
Layer0 == {j \in Declared : loaded.dependencies[j] = {}}

Layer1 == {j \in Declared \ Layer0 : loaded.dependencies[j] \subseteq Layer0}

Layer2 ==
    {j \in Declared \ (Layer0 \cup Layer1) :
        loaded.dependencies[j] \subseteq (Layer0 \cup Layer1)}

LayerOf(j) == IF j \in Layer0 THEN 0 ELSE IF j \in Layer1 THEN 1 ELSE 2

\* Layers in increasing number, declaration order within a layer.
Before(a, b) ==
    \/ LayerOf(a) < LayerOf(b)
    \/ /\ LayerOf(a) = LayerOf(b)
       /\ Position(doc.jobs, a) < Position(doc.jobs, b)

\* C31: the resolved order of a configuration that loads holds every
\* declared job exactly once, every job lies in one of the layers (layer 0:
\* no dependency; layer n+1: every dependency in layers 0..n), a job of a
\* lower layer stands before a job of a higher one, and jobs of one layer
\* stand in the order of the jobs mapping.
C31_OrderIsLayered ==
    (LoadDone /\ loaded.ok) =>
        /\ IsInjective(loaded.job_order)
        /\ Range(loaded.job_order) = Declared
        /\ Declared = Layer0 \cup Layer1 \cup Layer2
        /\ \A i, k \in 1..Len(loaded.job_order) :
              i < k => Before(loaded.job_order[i], loaded.job_order[k])

\* A load with two layers whose first layer holds "test" before "build",
\* as declared.
C31_Witness ==
    /\ LoadDone
    /\ loaded.ok
    /\ Layer1 # {}
    /\ {"test", "build"} \subseteq Layer0
    /\ Position(loaded.job_order, "test") < Position(loaded.job_order, "build")

(***************************************************************************)
(* Properties of the runner invocations of a run (checked under SpecRun)   *)
(***************************************************************************)
\* The runner was invoked for the first jobs of the resolved order, once
\* each and in that order.
InvokedInOrder(p) ==
    /\ Len(runs[p].calls) <= Len(ResolvedOrder(p))
    /\ \A i \in 1..Len(runs[p].calls) : runs[p].calls[i].job = ResolvedOrder(p)[i]

\* Only the last invocation may have failed or raised.
NoneAfterFailure(p) ==
    \A i \in 1..(Len(runs[p].calls) - 1) : ReportedSuccess(runs[p].calls[i])

\* The run stopped at its first failing job or went through every job.
StoppedAtFirstFailure(p) ==
    \/ AllReportedSuccess(p) /\ Len(runs[p].calls) = Len(ResolvedOrder(p))
    \/ runs[p].calls # <<>> /\ ~ReportedSuccess(LastCall(p))

SkippedUntouched(p) ==
    \A i \in JobsOf(jobs, p) :
        jobs[i].status = "skipped" =>
            /\ jobs[i].start_time = Null
            /\ jobs[i].log = Null
            /\ Calls(p, jobs[i].job_name) = {}

\* C32: in every run the runner is invoked for the jobs of the resolved
\* order in that order, each at most once, and never again after an
\* invocation that failed or raised; when the run has returned the number
\* of invocations is the position of the first failing job, or the number
\* of jobs when none failed; a job row marked skipped has no start time, no
\* log and no invocation.
C32_NoInvocationAfterFailure ==
    \A p \in DOMAIN runs :
        PipelineExists(p) =>
            /\ InvokedInOrder(p)
            /\ NoneAfterFailure(p)
            /\ Returned(p) => StoppedAtFirstFailure(p)
            /\ SkippedUntouched(p)

\* A returned run of three jobs whose first job failed: one invocation,
\* the two other jobs skipped.
C32_Witness ==
    \E p \in DOMAIN runs :
        /\ Returned(p)
        /\ Len(runs[p].calls) = 1
        /\ ReportedFailure(LastCall(p))
        /\ \A i \in 2..3 : HasStatus(p, ResolvedOrder(p)[i], "skipped")

(***************************************************************************)
(* Properties of an invocation for a pipeline that is not in the store     *)
(* (checked under SpecRun)                                                 *)
(***************************************************************************)
\* A step of the invocation that names the absent pipeline.
AbsentStep == runs'[AbsentPipeline] # runs[AbsentPipeline]

RecordsUntouched ==
    /\ pipelines' = pipelines
    /\ jobs' = jobs
    /\ statusLog' = statusLog
    /\ workspaces' = workspaces
    /\ runs'[AbsentPipeline].pc = "done"

\* The invocation has neither called the runner nor notified the observer,
\* and no row carries its pipeline id.
AbsentQuiet ==
    /\ runs[AbsentPipeline].pc \in {"queued", "done"}
    /\ runs[AbsentPipeline].calls = <<>>
    /\ runs[AbsentPipeline].reports = <<>>
    /\ AbsentPipeline \notin DOMAIN pipelines
    /\ JobsOf(jobs, AbsentPipeline) = {}

\* C33: an invocation of run_pipeline for a pipeline id without a pipeline
\* row returns in one step that changes no pipeline row, no job row and
\* no workspace directory; it never invokes the runner, never notifies the observer bound to it and
\* never creates a row for that id.
C33_AbsentPipelineNoEffect == [][AbsentStep => RecordsUntouched]_vars /\ []AbsentQuiet

\* The invocation for the absent pipeline has returned while another, for
\* a pipeline that exists, is between two of its jobs.
C33_Witness ==
    /\ Returned(AbsentPipeline)
    /\ runs[AbsentPipeline].observer = "reliable"
    /\ runs[1].pc = "job_start"
    /\ Len(runs[1].calls) = 1

(***************************************************************************)
(* run_pipeline with each invocation running on a thread of its own        *)
(* (webhook/app.py:319-323): a thread that can take a step eventually      *)
(* takes it, and every call of the runner returns or raises.               *)
(***************************************************************************)
SpecRunFair == SpecRun /\ \A p \in {1, 2, AbsentPipeline} : WF_vars(RunOf(p))

(***************************************************************************)
(* Properties of the end of a run (checked under SpecRunFair)              *)
(***************************************************************************)
JobFinal(p, name) ==
    \E st \in {"success", "failure", "skipped"} : HasStatus(p, name, st)

AllFinal(p) ==
    /\ \A n \in Range(ResolvedOrder(p)) : JobFinal(p, n)
    /\ PipelineFinal(p)

ReturnedFinal ==
    \A p \in DOMAIN runs : (Returned(p) /\ PipelineExists(p)) => AllFinal(p)

\* C34: every invocation of run_pipeline on a pipeline that exists
\* eventually returns, and when it has returned every job of the resolved
\* order is success, failure or skipped and the pipeline is success or
\* failure.
C34_RunTerminatesFinal ==
    /\ \A p \in {1, 2} : <>Returned(p)
    /\ []ReturnedFinal

\* Both invocations have returned, one after a failure of its first job
\* that left two jobs skipped, one after three successes.
C34_Witness ==
    /\ Returned(1) /\ Returned(2)
    /\ AllFinal(1) /\ AllFinal(2)
    /\ Len(runs[1].calls) = 1
    /\ pipelines[2].status = "success"

(***************************************************************************)
(* Properties of the statuses a run leaves (checked under SpecRun)         *)
(***************************************************************************)
RowsWithStatus(p, status) == {i \in JobsOf(jobs, p) : jobs[i].status = status}

AllJobsSucceeded(p) ==
    \A n \in Range(ResolvedOrder(p)) : HasStatus(p, n, "success")

\* C35: a pipeline never has more than one job row in status failure, and
\* a pipeline in status success has no skipped job row; when its run has
\* returned, the pipeline is success exactly when every job of the resolved
\* order is success and failure exactly when one job row is failure.
C35_StatusMatchesJobs ==
    \A p \in DOMAIN runs :
        PipelineExists(p) =>
            /\ Cardinality(RowsWithStatus(p, "failure")) <= 1
            /\ pipelines[p].status = "success" => RowsWithStatus(p, "skipped") = {}
            /\ Returned(p) =>
                  /\ pipelines[p].status = "success" <=> AllJobsSucceeded(p)
                  /\ pipelines[p].status = "failure" <=>
                         Cardinality(RowsWithStatus(p, "failure")) = 1

\* Two returned runs: one failed with the second job failure and the third
\* skipped, one succeeded with every job success.
C35_Witness ==
    /\ Returned(1) /\ Returned(2)
    /\ pipelines[1].status = "failure"
    /\ HasStatus(1, ResolvedOrder(1)[1], "success")
    /\ HasStatus(1, ResolvedOrder(1)[2], "failure")
    /\ HasStatus(1, ResolvedOrder(1)[3], "skipped")
    /\ pipelines[2].status = "success"
    /\ AllJobsSucceeded(2)

(***************************************************************************)
(* One run of any workflow the loader produces: a push of one workflow     *)
(* file has created the pipeline and its job rows and submitted the run    *)
(* (webhook/app.py:166-263).                                               *)
(***************************************************************************)
LoadedConfigs == {c \in {LoadPipelineConfig(d) : d \in Docs} : c.ok}

InitWorkflow ==
    /\ InitLoadIdle
    /\ InitEnsureIdle
    /\ pipelines = CreatePipeline(<<>>, "c1", 1, 1)
    /\ statusLog = LogCreate(<<>>)
    /\ retryOf = CreatedBy(<<>>, 1, 0)
    /\ triggers = <<>>
    /\ workspaces = {1}
    /\ \E config \in LoadedConfigs :
          /\ jobs = CreateJobs(<<>>, 1, config.jobs, 1)
          /\ runs = (1 :> NewRun(config, 1))

NextWorkflow == RunStep

SpecWorkflow == InitWorkflow /\ [][NextWorkflow]_vars

(***************************************************************************)
(* Properties of a run with respect to the dependency edges (checked under *)
(* SpecWorkflow)                                                           *)
(***************************************************************************)
\* The jobs a job requires, directly or through other jobs.
RequiredBy(p, name) == Descendants(runs[p].config.dependencies, name)

DependenciesSucceeded(i) ==
    \A d \in RequiredBy(jobs[i].pipeline_id, jobs[i].job_name) :
        HasStatus(jobs[i].pipeline_id, d, "success")

StartsAfterDependencies ==
    \A i \in DOMAIN jobs :
        (jobs[i].status # "running" /\ jobs'[i].status = "running") =>
            DependenciesSucceeded(i)

StartedHaveDependencies ==
    \A i \in DOMAIN jobs :
        jobs[i].start_time # Null => DependenciesSucceeded(i)

\* C36: in a run of any workflow the loader produces, a step marks a job
\* running only when every job it requires, directly or through other
\* jobs, has status success; a job some dependency of which is failure or
\* skipped never gets a start time.
C36_StartedAfterDependencies ==
    [][StartsAfterDependencies]_vars /\ []StartedHaveDependencies

\* A job that requires two others is running, both of them success, in an
\* order other than the declared one.
C36_Witness ==
    \E i \in DOMAIN jobs :
        /\ jobs[i].status = "running"
        /\ Cardinality(runs[1].config.dependencies[jobs[i].job_name]) = 2
        /\ DependenciesSucceeded(i)
        /\ runs[1].config.job_order # runs[1].config.jobs

(***************************************************************************)
(* Properties of the timestamps (checked under SpecTrigger)                *)
(***************************************************************************)
\* A status a job row has only after it was marked running.
MarkedRunning(i) == jobs[i].status \in {"running", "success", "failure"}

JobTimestampsOk(i) ==
    /\ jobs[i].start_time # Null <=> MarkedRunning(i)
    /\ jobs[i].end_time # Null <=> jobs[i].status \in {"success", "failure"}

PipelineTimestampOk(p) ==
    pipelines[p].end_time # Null <=> pipelines[p].status \in {"success", "failure"}

\* C37: in every state a job row has a start time exactly when its status
\* is running, success or failure (the statuses that follow its being
\* marked running) and an end time exactly when its status is success or
\* failure; a pipeline row has an end time exactly when its status is
\* success or failure.
C37_TimestampsMatchStatus ==
    /\ \A i \in DOMAIN jobs : JobTimestampsOk(i)
    /\ \A p \in DOMAIN pipelines : PipelineTimestampOk(p)

\* A failed pipeline with one job failure and one skipped, next to a
\* pipeline that is running its first job.
C37_Witness ==
    \E p, q \in DOMAIN pipelines :
        /\ pipelines[p].status = "failure"
        /\ RowsWithStatus(p, "failure") # {}
        /\ RowsWithStatus(p, "skipped") # {}
        /\ pipelines[q].status = "running"
        /\ RowsWithStatus(q, "running") # {}
        /\ RowsWithStatus(q, "pending") # {}

(***************************************************************************)
(* Properties of a retry that cannot be set up (checked under SpecRetry)   *)
(***************************************************************************)
\* The step serves a retry whose fetch failed or whose configuration file
\* did not load.
RetryWithoutSource ==
    /\ Len(triggers') = Len(triggers) + 1
    /\ LET t == triggers'[Len(triggers')]
       IN  /\ t.kind = "retry"
           /\ t.fetched
           /\ \/ ~t.fetch_ok
              \/ ~LoadPipelineConfig(t.files[1].doc).ok

StoreAndQueueKept ==
    /\ pipelines' = pipelines
    /\ jobs' = jobs
    /\ statusLog' = statusLog
    /\ runs' = runs
    /\ workspaces' = workspaces

\* C39: a retry whose fetch fails or whose configuration does not load
\* creates no pipeline row and no job row, submits no run, and leaves every
\* pipeline row, job row and pipeline workspace as it was.
C39_FailedRetryChangesNothing == [][RetryWithoutSource => StoreAndQueueKept]_vars

\* The last request was a retry of a pipeline whose run has returned, with
\* a configuration that no longer loads: no row was added.
C39_Witness ==
    /\ triggers # <<>>
    /\ LET t == triggers[Len(triggers)]
       IN  /\ t.kind = "retry" /\ t.fetch_ok
           /\ ~LoadPipelineConfig(t.files[1].doc).ok
           /\ t.base = Len(pipelines)
           /\ Returned(t.of)

(***************************************************************************)
(* Pushes with a reporter that may raise, the submitted runs each on a     *)
(* thread of its own (webhook/app.py:255-263 and 319-323): a run that can  *)
(* take a step eventually takes it, and every call of the runner returns   *)
(* or raises.  Nothing obliges a push to arrive.                           *)
(***************************************************************************)
SpecNotifyFair == SpecNotify /\ \A p \in 1..MaxPipelines : WF_vars(RunOf(p))

(***************************************************************************)
(* Properties of the fate of a created pipeline (checked under             *)
(* SpecNotifyFair)                                                         *)
(***************************************************************************)
Created(p) == p \in DOMAIN pipelines

Finalised(p) == Created(p) /\ pipelines[p].status \in {"success", "failure"}

\* C38: every pipeline row a push creates eventually has status success or
\* failure, whatever happens to the other workflow files of the push, to
\* the copy into the workspace and to the calls of the status reporter.
C38_EveryPipelineFinishes ==
    \A p \in 1..MaxPipelines : Created(p) ~> Finalised(p)
====
